---- MODULE Spec2Model ----
(***************************************************************************)
(* EventBus (util/EventBus.ts): the listener registry, emit with its       *)
(* isProcessing flag and eventQueue, and processEvent's dispatch pass.     *)
(*                                                                         *)
(* Every action is one synchronous stretch of JavaScript: the code between *)
(* two awaits.  emit suspends at `await this.processEvent(..)` and         *)
(* processEvent suspends at `await config.listener(eventData)`; between    *)
(* two such stretches any other caller (a producer, the listener itself,   *)
(* a continuation that runs while an async listener is suspended) may call *)
(* on, off, emit or removeListenersBySource.                               *)
(*                                                                         *)
(* DomObserver (util/EventDomObserver.ts), KeyboardListener                *)
(* (util/EventKeyboardListener.ts), MouseListener                          *)
(* (util/EventMouseListener.ts) and NetworkListener                        *)
(* (util/EventNetworkListener.ts) are the producers: their callbacks are   *)
(* run by the host (MutationObserver, setTimeout, addEventListener, the    *)
(* wrapped fetch and XMLHttpRequest) and pass their records to emit.       *)
(***************************************************************************)
EXTENDS Integers, Sequences, FiniteSets, TLC

\* ------------------------------------------------------------------ bounds
\* calls of on() and emit() together in one behaviour, per specification
MaxCalls == 4
OrderMaxCalls == 4
RegMaxCalls == 3
QueueMaxCalls == 4
OwnerMaxCalls == 3
IdsMaxCalls == 4
ClearMaxCalls == 4
\* batches of changes of the document in one behaviour, per specification
DomMaxChanges == 1
FilterMaxChanges == 2
ObserveMaxChanges == 1
TimerMaxChanges == 3
MalformedMaxChanges == 2
WindowMaxChanges == 2
\* key events and calls of on() and emit() together in one behaviour
KeyMaxCalls == 3
\* key and pointer events the document dispatches in one behaviour
InputMaxEvents == 2
\* requests issued and XMLHttpRequest objects created together in one behaviour
NetMaxCalls == 3

\* ------------------------------------------------------------------ inputs
Kinds == {"keydown", "custom"}          \* two members of EventType
\* the members of EventType that the producers modelled here emit, and those two
EventTypes == Kinds \cup {"keyup", "keybinding", "dom_mutation"}
                    \cup {"mousemove", "mousedown", "mouseup", "click", "dblclick"}
                    \cup {"network_request", "network_response"}
Sources == {"pluginA", "pluginB"}       \* ListenerConfig.source
Priorities == {0, 1, 2}                 \* ListenerConfig.priority
ExplicitIds == {-1}                     \* an id the caller supplies (options.id)
Frames == {1, 2}                        \* activations of emit() that can be suspended at once
\* what a listener call settles with: the awaited value, or a throw/rejection
Results == {"true", "false", "undefined", "one", "throw"}

NoConfig == [uid |-> 0, id |-> 0, priority |-> 0, once |-> FALSE, source |-> "none"]

VARIABLES
  listeners,         \* EventBus.listeners: kind -> [has, arr]; has = the Map holds the key
  isProcessing,      \* EventBus.isProcessing
  eventQueue,        \* EventBus.eventQueue: records (by number) waiting for a pass
  executionContext,  \* EventBus.executionContext: the keys that are set, 0 = absent
  frames,            \* the suspended activations of emit()/processEvent()
  nextUid,           \* number of the next registration (order of the on() fired)
  recs,              \* history: one entry per emit() call, in call order
  fired,             \* history: the once listeners that have been invoked
  removedBySource    \* history: what removeListenersBySource took out, and when

busVars == <<listeners, isProcessing, eventQueue, executionContext, frames, nextUid, recs, fired,
             removedBySource>>

VARIABLES
  observer,          \* DomObserver.observer and what it observes; alive = FALSE: null
  domIsActive,       \* DomObserver.isActive
  domSelectors,      \* DomObserver.domSelectors: pluginName -> array of configs
  selectorCache,     \* DomObserver.selectorCache: the entries [key, config]
  debounceTimer,     \* DomObserver.debounceTimer: a timer id, 0 = null
  pendingMutations,  \* DomObserver.pendingMutations
  hostTimers,        \* the host's pending timeouts (window.setTimeout / clearTimeout)
  domStarted,        \* history: EventEmitter.init has called start()
  domChanges,        \* history: number of batches of changes the document has had
  arrived,           \* history: the records the callback got since the timer was last idle
  dropped,           \* history: the batches whose records stop() took from the buffer
  lastDomCall        \* history: the last call of a public method, and what it found

domVars == <<observer, domIsActive, domSelectors, selectorCache, debounceTimer,
             pendingMutations, hostTimers, domStarted, domChanges, arrived, dropped,
             lastDomCall>>

VARIABLES
  kbIsActive,        \* KeyboardListener.isActive
  kbListeners,       \* KeyboardListener.listeners: the cleanup functions, by handler name
  docHandlers,       \* the handlers attached to document (addEventListener)
  keyEvents          \* history: how many key events the document dispatched, and the last

kbVars == <<kbIsActive, kbListeners, docHandlers, keyEvents>>

VARIABLES
  mouseIsActive,     \* MouseListener.isActive
  mouseListeners,    \* MouseListener.listeners: the cleanup functions, by handler
  pointerEvents      \* history: how many pointer events the document dispatched, and the last

mouseVars == <<mouseIsActive, mouseListeners, pointerEvents>>

VARIABLES
  netIsActive,       \* NetworkListener.isActive
  windowFetch,       \* window.fetch: "original" or "wrapped"
  windowXHR,         \* window.XMLHttpRequest: "original" or "custom"
  requestCounter,    \* NetworkListener.requestCounter
  netNow,            \* Date.now(), as the network code reads it
  xhrs,              \* the XMLHttpRequest objects that scripts have created
  fetches,           \* the calls of the wrapped fetch that await their response
  netRequests        \* history: one entry per request that a script issued

netVars == <<netIsActive, windowFetch, windowXHR, requestCounter, netNow, xhrs, fetches,
             netRequests>>

vars == <<busVars, domVars, kbVars, mouseVars, netVars>>

\* ------------------------------------------------------------- pure helpers
\* generateListenerId: a fresh id per call; the registration number stands for it
generateListenerId(uid) == uid

\* the comparator of on(): (a, b) => b.priority - a.priority
CompareAsc(a, b) == a.priority - b.priority
Compare(a, b) == b.priority - a.priority

\* Array.prototype.sort is stable: an element moves in front of another only
\* when the comparator says it must (Compare(x, c) > 0: x sorts after c).
RECURSIVE InsertSortedUnstable(_, _)
InsertSortedUnstable(s, c) ==
  IF s = <<>> THEN <<c>>
  ELSE LET x == s[Len(s)] IN
       IF Compare(x, c) >= 0
         THEN Append(InsertSortedUnstable(SubSeq(s, 1, Len(s) - 1), c), x)
         ELSE Append(s, c)

RECURSIVE InsertSorted(_, _)
InsertSorted(s, c) ==
  IF s = <<>> THEN <<c>>
  ELSE LET x == s[Len(s)] IN
       IF Compare(x, c) > 0
         THEN Append(InsertSorted(SubSeq(s, 1, Len(s) - 1), c), x)
         ELSE Append(s, c)

RECURSIVE SortListeners(_)
SortListeners(s) ==
  IF s = <<>> THEN <<>>
  ELSE InsertSorted(SortListeners(SubSeq(s, 1, Len(s) - 1)), s[Len(s)])

\* listeners.findIndex(l => l.id === listenerId): first match, 0 for -1
RECURSIVE FindIndexFrom(_, _, _)
FindIndexFrom(arr, id, i) ==
  IF i > Len(arr) THEN 0
  ELSE IF arr[i].id = id THEN i
  ELSE FindIndexFrom(arr, id, i + 1)

RECURSIVE findLastIndex(_, _)
findLastIndex(arr, id) ==
  IF arr = <<>> THEN 0
  ELSE IF arr[Len(arr)].id = id THEN Len(arr)
  ELSE findLastIndex(SubSeq(arr, 1, Len(arr) - 1), id)

findIndex(arr, id) == FindIndexFrom(arr, id, 1)

\* listeners.splice(index, 1)
spliceToEnd(arr, i) == SubSeq(arr, 1, i - 1)
splice(arr, i) == SubSeq(arr, 1, i - 1) \o SubSeq(arr, i + 1, Len(arr))

\* listeners.filter(config => config.source !== source)
RECURSIVE filterSourceKeeps(_, _)
filterSourceKeeps(arr, s) ==
  IF arr = <<>> THEN <<>>
  ELSE LET rest == filterSourceKeeps(Tail(arr), s) IN
       IF Head(arr).source = s THEN <<Head(arr)>> \o rest ELSE rest

RECURSIVE filterSource(_, _)
filterSource(arr, s) ==
  IF arr = <<>> THEN <<>>
  ELSE LET rest == filterSource(Tail(arr), s) IN
       IF Head(arr).source # s THEN <<Head(arr)>> \o rest ELSE rest

\* off(eventType, listenerId) as a function of the registry
offReturns(L, k, id) == L[k].has /\ findIndex(L[k].arr, id) # 0

offListeners(L, k, id) ==
  IF ~offReturns(L, k, id) THEN L
  ELSE LET a == splice(L[k].arr, findIndex(L[k].arr, id)) IN
       IF Len(a) = 0 THEN [L EXCEPT ![k] = [has |-> FALSE, arr |-> <<>>]]
       ELSE [L EXCEPT ![k] = [has |-> TRUE, arr |-> a]]

\* `result === true`
IsTruthy(result) == result \in {"true", "one"}
IsStrictTrue(result) == result = "true"

\* --------------------------------------------------------------- the frames
IdleFrame ==
  [pc |-> "idle", owner |-> 0, rec |-> 0, first |-> FALSE, wasShortCircuited |-> FALSE,
   live |-> FALSE, arr |-> <<>>, idx |-> 0, cur |-> NoConfig, listenersToRemove |-> <<>>,
   res |-> FALSE, threw |-> FALSE, last |-> "none", log |-> <<>>,
   mut |-> FALSE, faults |-> <<>>, since |-> 0]

InPass(f) == frames[f].pc = "listener"
KindOf(r) == recs[r].kind

\* the array the for-of loop of frame f iterates: the Map's array while the
\* Map still holds that very array, else the array as it was when it was replaced
IterArr(f) ==
  IF frames[f].live THEN listeners[KindOf(frames[f].rec)].arr ELSE frames[f].arr

NoContext == [currentEvent |-> 0, startTime |-> FALSE, currentListener |-> 0]

InitBus ==
  /\ listeners = [k \in EventTypes |-> [has |-> FALSE, arr |-> <<>>]]
  /\ isProcessing = FALSE
  /\ eventQueue = <<>>
  /\ executionContext = NoContext
  /\ frames = [f \in Frames |-> IdleFrame]
  /\ nextUid = 1
  /\ recs = <<>>
  /\ fired = {}
  /\ removedBySource = {}

\* ------------------------------------------------------------ processEvent
\* processEvent returns false at once unless the kind has a non-empty list
PassStarts(k) == listeners[k].has /\ Len(listeners[k].arr) > 0

\* the frame after the synchronous start of processEvent(r): either it has
\* returned false already (no listeners), or the first listener has been called
BeginFrame(fr, r, k) ==
  IF PassStarts(k)
    THEN [fr EXCEPT !.pc = "listener", !.rec = r, !.live = TRUE, !.arr = <<>>, !.idx = 1,
                    !.cur = listeners[k].arr[1], !.listenersToRemove = <<>>,
                    !.res = FALSE, !.threw = FALSE, !.last = "none",
                    !.log = <<listeners[k].arr[1].uid>>, !.mut = FALSE,
                    !.faults = <<>>, !.since = nextUid]
    ELSE [fr EXCEPT !.pc = "await_pass", !.rec = r, !.live = FALSE, !.arr = <<>>, !.idx = 0,
                    !.cur = NoConfig, !.listenersToRemove = <<>>,
                    !.res = FALSE, !.threw = FALSE, !.last = "none",
                    !.log = <<>>, !.mut = FALSE, !.faults = <<>>, !.since = nextUid]

\* setExecutionContext("currentEvent" / "startTime" / "currentListener")
BeginContext(r, k) ==
  IF PassStarts(k)
    THEN [currentEvent |-> r, startTime |-> TRUE,
          currentListener |-> listeners[k].arr[1].uid]
    ELSE executionContext

Invoked(c) == IF c.once THEN fired \cup {c.uid} ELSE fired

BeginFired(k) == IF PassStarts(k) THEN Invoked(listeners[k].arr[1]) ELSE fired

BeginRec(rc, k) ==
  [rc EXCEPT !.st = IF PassStarts(k) THEN "active" ELSE "done", !.passes = @ + 1]

\* what the loop body does with a settled listener call: the catch block
\* swallows a throw, `result === true` returns true, anything else goes on
ListenerOutcomeUnawaited(result) == "continue"

ListenerOutcomeRethrow(result) ==
  IF result = "throw" THEN "abort"
  ELSE IF IsStrictTrue(result) THEN "short"
  ELSE "continue"

ListenerOutcome(result) ==
  IF result = "throw" THEN "continue"
  ELSE IF IsStrictTrue(result) THEN "short"
  ELSE "continue"

\* for (const listenerId of listenersToRemove) this.off(eventData.type, listenerId)
RECURSIVE offAll(_, _, _)
offAll(L, k, ids) ==
  IF ids = <<>> THEN L ELSE offAll(offListeners(L, k, Head(ids)), k, Tail(ids))

\* frames whose loop iterates the array of kind k that has just been changed in
\* place to L2[k]: they see the change; a deleted key leaves them their (empty) array
SeeInPlace(F, k, L2, except) ==
  [g \in Frames |->
     IF g # except /\ F[g].pc = "listener" /\ F[g].live /\ recs[F[g].rec].kind = k
        /\ L2[k] # listeners[k]
       THEN [F[g] EXCEPT !.mut = TRUE, !.live = L2[k].has]
       ELSE F[g]]

\* frames whose loop iterates an array that the Map no longer holds: they keep it
Detached(F) ==
  [g \in Frames |->
     IF F[g].pc = "listener" /\ F[g].live
       THEN [F[g] EXCEPT !.live = FALSE, !.arr = listeners[recs[F[g].rec].kind].arr]
       ELSE F[g]]

\* ------------------------------------------------------------------ actions
\* on(eventType, listener, {id, priority, once, source}); id = 0: none supplied
On(k, p, o, s, id) ==
  /\ LET config == [uid |-> nextUid,
                    id |-> IF id = 0 THEN generateListenerId(nextUid) ELSE id,
                    priority |-> p, once |-> o, source |-> s]
         L2 == [listeners EXCEPT ![k] =
                  [has |-> TRUE, arr |-> SortListeners(Append(listeners[k].arr, config))]]
     IN /\ listeners' = L2
        /\ frames' = SeeInPlace(frames, k, L2, 0)
  /\ nextUid' = nextUid + 1
  /\ UNCHANGED <<isProcessing, eventQueue, executionContext, recs, fired, removedBySource>>

\* off(eventType, listenerId)
Off(k, id) ==
  /\ LET L2 == offListeners(listeners, k, id)
     IN /\ listeners' = L2
        /\ frames' = SeeInPlace(frames, k, L2, 0)
  /\ UNCHANGED <<isProcessing, eventQueue, executionContext, nextUid, recs, fired,
                 removedBySource>>

\* the registrations that filter() of removeListenersBySource(s) drops, with the
\* number of emit() calls made so far
FilteredOut(s) ==
  UNION {{[uid |-> listeners[k].arr[i].uid, kind |-> k, at |-> Len(recs)] :
            i \in {j \in 1..Len(listeners[k].arr) : listeners[k].arr[j].source = s}} :
         k \in EventTypes}

\* removeListenersBySource(source): every key of the Map gets a new, filtered array
removeListenersBySource(s) ==
  /\ listeners' = [k \in EventTypes |->
                     IF listeners[k].has
                       THEN [has |-> TRUE, arr |-> filterSource(listeners[k].arr, s)]
                       ELSE listeners[k]]
  /\ frames' = Detached(frames)
  /\ removedBySource' = removedBySource \cup FilteredOut(s)
  /\ UNCHANGED <<isProcessing, eventQueue, executionContext, nextUid, recs, fired>>

\* clear(): the Map is emptied, eventQueue is a new empty array, the execution
\* context is cleared; a pass that is running keeps the array it iterates
Clear ==
  /\ listeners' = [k \in EventTypes |-> [has |-> FALSE, arr |-> <<>>]]
  /\ frames' = Detached(frames)
  /\ eventQueue' = <<>>
  /\ executionContext' = NoContext
  /\ UNCHANGED <<isProcessing, nextUid, recs, fired, removedBySource>>

\* the guard of emit: `if (this.isProcessing)` queues the record
emitQueuesNever == FALSE
emitQueues == isProcessing

\* what emit returns for a record it has queued: `return false`
queuedReturnTrue == "true"
queuedReturn == "false"

\* the guard of the drain loop: `while (this.eventQueue.length > 0)`
queueNeverHasMore == FALSE
queueHasMoreThanOne == Len(eventQueue) > 1
queueHasMore == Len(eventQueue) > 0

\* this.eventQueue.shift(): the oldest record leaves the queue
pop(q) == [item |-> q[Len(q)], rest |-> SubSeq(q, 1, Len(q) - 1)]
shift(q) == [item |-> Head(q), rest |-> Tail(q)]

\* the finally block of emit: `this.isProcessing = false`
finallyKeepsProcessing == TRUE
finallyIsProcessing == FALSE

LowestIdle == CHOOSE f \in Frames : frames[f].pc = "idle" /\ \A g \in Frames : frames[g].pc = "idle" => f <= g

PassRunning == IF \E f \in Frames : InPass(f)
                 THEN frames[CHOOSE f \in Frames : InPass(f)].rec ELSE 0

NewRec(k) ==
  [kind |-> k, direct |-> FALSE, during |-> PassRunning, st |-> "queued", passes |-> 0,
   ret |-> "pending", sc |-> FALSE, data |-> <<>>]

\* the records that calls of emit made one after the other in one synchronous
\* stretch, all while isProcessing is set, leave in recs: each one is queued
Queued(es, during) ==
  [i \in 1..Len(es) |->
     [NewRec(es[i].kind) EXCEPT !.ret = queuedReturn, !.data = es[i].data, !.during = during]]

QueuedNumbers(es, from) == [i \in 1..Len(es) |-> from + i - 1]

\* emit(e1); emit(e2); .. made one after the other by one caller without an await
\* in between, each up to its first await: the first call queues its record or
\* starts its pass; isProcessing is set after it either way, so the others queue
EmitAll(es) ==
  /\ LET r == Len(recs) + 1
         k == es[1].kind
     IN
     IF emitQueues
       THEN /\ eventQueue' = eventQueue \o QueuedNumbers(es, r)
            /\ recs' = recs \o Queued(es, PassRunning)
            /\ UNCHANGED <<listeners, isProcessing, executionContext, frames, nextUid, fired,
                           removedBySource>>
       ELSE /\ \E f \in Frames : frames[f].pc = "idle"
            /\ isProcessing' = TRUE
            /\ frames' = [frames EXCEPT ![LowestIdle] =
                            BeginFrame([IdleFrame EXCEPT !.owner = r, !.first = TRUE], r, k)]
            /\ executionContext' = BeginContext(r, k)
            /\ fired' = BeginFired(k)
            /\ recs' = Append(recs, BeginRec([NewRec(k) EXCEPT !.direct = TRUE,
                                                              !.data = es[1].data], k))
                         \o Queued(Tail(es), IF PassStarts(k) THEN r ELSE 0)
            /\ eventQueue' = eventQueue \o QueuedNumbers(Tail(es), r + 1)
            /\ UNCHANGED <<listeners, nextUid, removedBySource>>

\* emit(eventData), up to its first await; d = eventData.data
EmitData(k, d) == EmitAll(<<[kind |-> k, data |-> d]>>)

\* an emit whose payload no listener of the model reads
Emit(k) == EmitData(k, <<>>)

\* frame f leaves processEvent: the fields of the loop are gone
Returned(fr, result, value, aborted) ==
  [fr EXCEPT !.pc = "await_pass", !.res = value, !.threw = aborted, !.last = result,
             !.live = FALSE, !.arr = <<>>, !.idx = 0, !.cur = NoConfig,
             !.listenersToRemove = <<>>, !.since = 0]

\* the awaited listener call of frame f settles with `result`; the loop runs on
\* to the next listener call or to the end of processEvent
ListenerSettles(f, result) ==
  /\ InPass(f)
  /\ LET fr == frames[f]
         r == fr.rec
         k == recs[r].kind
         outcome == ListenerOutcome(result)
         toRemove == IF fr.cur.once THEN Append(fr.listenersToRemove, fr.cur.id)
                     ELSE fr.listenersToRemove
         arr == IterArr(f)
         faults == IF result = "throw" THEN Append(fr.faults, fr.cur.uid) ELSE fr.faults
     IN CASE outcome = "short" ->
               /\ frames' = [frames EXCEPT ![f] = Returned(fr, result, TRUE, FALSE)]
               /\ recs' = [recs EXCEPT ![r].st = "done", ![r].sc = TRUE]
               /\ UNCHANGED <<listeners, executionContext, fired>>
          [] outcome = "abort" ->
               /\ frames' = [frames EXCEPT ![f] =
                     [Returned(fr, result, FALSE, TRUE) EXCEPT !.faults = faults]]
               /\ recs' = [recs EXCEPT ![r].st = "done"]
               /\ UNCHANGED <<listeners, executionContext, fired>>
          [] outcome = "continue" /\ fr.idx < Len(arr) ->
               LET next == arr[fr.idx + 1] IN
               /\ frames' = [frames EXCEPT ![f] =
                     [fr EXCEPT !.idx = @ + 1, !.cur = next, !.last = result,
                                !.listenersToRemove = toRemove,
                                !.log = Append(@, next.uid), !.faults = faults]]
               /\ executionContext' = [executionContext EXCEPT !.currentListener = next.uid]
               /\ fired' = Invoked(next)
               /\ UNCHANGED <<listeners, recs>>
          [] outcome = "continue" /\ fr.idx >= Len(arr) ->
               LET L2 == offAll(listeners, k, toRemove) IN
               /\ listeners' = L2
               /\ frames' = [SeeInPlace(frames, k, L2, f) EXCEPT
                               ![f] = [Returned(fr, result, FALSE, FALSE)
                                         EXCEPT !.faults = faults]]
               /\ executionContext' = NoContext
               /\ recs' = [recs EXCEPT ![r].st = "done"]
               /\ UNCHANGED fired
  /\ UNCHANGED <<isProcessing, eventQueue, nextUid, removedBySource>>

\* emit resumes after `await this.processEvent(..)`: the next queued record, or
\* the finally block and the return
EmitResume(f) ==
  /\ frames[f].pc = "await_pass"
  /\ LET fr == frames[f]
         wsc == IF fr.first /\ ~fr.threw THEN fr.res ELSE fr.wasShortCircuited
     IN IF ~fr.threw /\ queueHasMore
          THEN LET q == shift(eventQueue).item
                   k == recs[q].kind
               IN /\ eventQueue' = shift(eventQueue).rest
                  /\ frames' = [frames EXCEPT ![f] =
                        BeginFrame([fr EXCEPT !.first = FALSE, !.wasShortCircuited = wsc], q, k)]
                  /\ executionContext' = BeginContext(q, k)
                  /\ fired' = BeginFired(k)
                  /\ recs' = [recs EXCEPT ![q] = BeginRec(@, k)]
                  /\ UNCHANGED isProcessing
          ELSE /\ isProcessing' = finallyIsProcessing
               /\ frames' = [frames EXCEPT ![f] = IdleFrame]
               /\ recs' = [recs EXCEPT ![fr.owner].ret = IF wsc THEN "true" ELSE "false"]
               /\ UNCHANGED <<eventQueue, executionContext, fired>>
  /\ UNCHANGED <<listeners, nextUid, removedBySource>>

\* ------------------------------------------------------------- DomObserver
\* DomMutationType, which is also the set of MutationRecord.type values
DomMutationTypes == {"childList", "attributes", "characterData"}

\* the document the observer watches: document > #root > div.gallery > a text node
DomNodes == {"document", "root", "gallery", "caption"}

parentNode(n) ==
  CASE n = "root" -> "document"
    [] n = "gallery" -> "root"
    [] n = "caption" -> "gallery"
    [] OTHER -> "null"

\* node.nodeType === Node.ELEMENT_NODE; only an Element has matches() and closest()
IsElement(n) == n \in {"root", "gallery"}

\* selectors that are not valid CSS: matches() and closest() throw a SyntaxError
MalformedSelectors == {"[["}

\* element.matches(selector), for a valid selector
matches(el, sel) ==
  \/ sel = "div.gallery" /\ el = "gallery"
  \/ sel = "#root" /\ el = "root"

\* element.closest(selector): the element itself or its nearest Element ancestor
RECURSIVE closest(_, _)
closest(el, sel) ==
  IF ~IsElement(el) THEN "null"
  ELSE IF matches(el, sel) THEN el
  ELSE closest(parentNode(el), sel)

\* DomSelectorConfig.mutationTypes: has = FALSE stands for undefined
NoMutationTypes == [has |-> FALSE, types |-> {}]

DomConfig(p, sel, mt) == [pluginName |-> p, selector |-> sel, mutationTypes |-> mt]

\* `${pluginName}:${selector}`
cacheKey(p, sel) == p \o ":" \o sel

NoObserver == [alive |-> FALSE, observed |-> {}]

\* .. and how many batches of changes the document had had when it was made
DomCall(op, config, found) ==
  [op |-> op, config |-> config, found |-> found, at |-> domChanges]
NoDomCall == DomCall("none", DomConfig("", "", NoMutationTypes), FALSE)

InitDom ==
  /\ observer = NoObserver
  /\ domIsActive = FALSE
  /\ domSelectors = [p \in {} |-> <<>>]
  /\ selectorCache = {}
  /\ debounceTimer = 0
  /\ pendingMutations = <<>>
  /\ hostTimers = {}
  /\ domStarted = FALSE
  /\ domChanges = 0
  /\ arrived = <<>>
  /\ dropped = {}
  /\ lastDomCall = NoDomCall

\* getAllRegisteredSelectors of a registry D (pluginName -> array); the claims use
\* only which configs it returns, so the order of the Map's keys is left out
getAllRegisteredSelectors(D) ==
  UNION {{D[p][i] : i \in 1..Len(D[p])} : p \in DOMAIN D}

\* getOptimalObserveConfig: the kinds for which the flag of MutationObserverInit is true
getOptimalObserveConfig(D) ==
  LET mutationTypes ==
        UNION {IF c.mutationTypes.has /\ c.mutationTypes.types # {}
                 THEN c.mutationTypes.types ELSE DomMutationTypes :
               c \in getAllRegisteredSelectors(D)}
  IN IF mutationTypes = {} THEN DomMutationTypes ELSE mutationTypes

\* getMutationType: the switch with its default
getMutationType(type) ==
  CASE type = "childList" -> "childList"
    [] type = "attributes" -> "attributes"
    [] type = "characterData" -> "characterData"
    [] OTHER -> "childList"

\* `config.mutationTypes && !config.mutationTypes.includes(mutationType)`
typeExcluded(config, mutationType) ==
  config.mutationTypes.has /\ mutationType \notin config.mutationTypes.types

\* the matcher compileSelectorCache builds: `element.matches && ..`, then
\* `element.closest && ..`, false when neither holds (a node that is no Element has
\* neither method) and false when the selector makes them throw
matcher(config, element) ==
  IF ~IsElement(element) THEN FALSE
  ELSE IF config.selector \in MalformedSelectors THEN FALSE
  ELSE IF matches(element, config.selector) THEN TRUE
  ELSE closest(element, config.selector) # "null"

\* isElementMatchedWithCache: the configs of the cache that match
isElementMatchedWithCache(element, mutationType) ==
  {e.config : e \in {x \in selectorCache :
                       ~typeExcluded(x.config, mutationType) /\ matcher(x.config, element)}}

\* isElementMatched: the cache when it has entries, else the registry and closest();
\* closest() throws for a malformed selector and is no function of a non-Element
isElementMatched(element, mutationType) ==
  IF Cardinality(selectorCache) > 0
    THEN isElementMatchedWithCache(element, mutationType)
    ELSE {c \in getAllRegisteredSelectors(domSelectors) :
            /\ ~typeExcluded(c, mutationType)
            /\ IsElement(element)
            /\ c.selector \notin MalformedSelectors
            /\ closest(element, c.selector) # "null"}

relevantByTarget(mutation) ==
  isElementMatched(mutation.target, getMutationType(mutation.type)) # {}

\* the predicate of filter() in filterRelevantMutations
relevant(mutation) ==
  LET mutationType == getMutationType(mutation.type) IN
  \/ isElementMatched(mutation.target, mutationType) # {}
  \/ /\ mutation.type = "childList"
     /\ \E i \in 1..Len(mutation.addedNodes) :
          /\ IsElement(mutation.addedNodes[i])
          /\ isElementMatched(mutation.addedNodes[i], mutationType) # {}

filterAbortsOnSyntaxError(mutations) ==
  IF getAllRegisteredSelectors(domSelectors) = {} THEN mutations
  ELSE IF \E c \in getAllRegisteredSelectors(domSelectors) : c.selector \in MalformedSelectors
    THEN <<>>
  ELSE SelectSeq(mutations, relevant)

filterRelevantMutations(mutations) ==
  IF getAllRegisteredSelectors(domSelectors) = {} THEN mutations
  ELSE SelectSeq(mutations, relevant)

\* the payload processMutations builds: one descriptor per record, and the count
descriptor(mutation) ==
  [type |-> getMutationType(mutation.type), target |-> mutation.target,
   addedNodes |-> Len(mutation.addedNodes)]

mutationCount(mutations) == Len(mutations)

processMutationsData(mutations) ==
  [mutations |-> [i \in 1..Len(mutations) |-> descriptor(mutations[i])],
   mutationCount |-> mutationCount(mutations)]

\* ---- the effects of the private methods, as functions of the state they find
\* start() when not active: setupDomObserver creates and connects the observer
startObserver(D) == [alive |-> TRUE, observed |-> getOptimalObserveConfig(D)]

\* reconfigureObserver: disconnect() and observe() with the new configuration
reconfigureKeeps(D) == observer
reconfigureObserver(D) ==
  IF observer.alive /\ domIsActive
    THEN [alive |-> TRUE, observed |-> getOptimalObserveConfig(D)]
    ELSE observer

smartStartWhenStarted(D) ==
  ~domIsActive /\ domStarted /\ Cardinality(getAllRegisteredSelectors(D)) > 0

\* smartStart with the registry D that registerDomSelector has just written
smartStartStarts(D) == ~domIsActive /\ Cardinality(getAllRegisteredSelectors(D)) > 0

\* smartStop with the registry D that unregisterDomSelector has just written
smartStopStops(D) == domIsActive /\ Cardinality(getAllRegisteredSelectors(D)) = 0

StopKeepsBuffer ==
  /\ observer' = NoObserver
  /\ domIsActive' = FALSE
  /\ dropped' = dropped \cup {pendingMutations[i].batch : i \in 1..Len(pendingMutations)}
  /\ UNCHANGED <<hostTimers, debounceTimer, pendingMutations, arrived>>

\* stop() when active: disconnect, clear the timer, drop the buffer
StopEffects ==
  /\ observer' = NoObserver
  /\ hostTimers' = IF debounceTimer # 0 THEN hostTimers \ {debounceTimer} ELSE hostTimers
  /\ debounceTimer' = 0
  /\ pendingMutations' = <<>>
  /\ arrived' = <<>>
  /\ dropped' = dropped \cup {pendingMutations[i].batch : i \in 1..Len(pendingMutations)}
  /\ domIsActive' = FALSE

\* pluginSelectors.findIndex(s => s.selector === selector), 0 for -1
RECURSIVE selectorIndexFrom(_, _, _)
selectorIndexFrom(arr, sel, i) ==
  IF i > Len(arr) THEN 0
  ELSE IF arr[i].selector = sel THEN i
  ELSE selectorIndexFrom(arr, sel, i + 1)

selectorIndex(arr, sel) == selectorIndexFrom(arr, sel, 1)

\* registerDomSelector's update of pluginSelectors: overwrite in place, or push
upsertAlwaysPushes(arr, config) == Append(arr, config)
upsert(arr, config) ==
  IF selectorIndex(arr, config.selector) # 0
    THEN [arr EXCEPT ![selectorIndex(arr, config.selector)] = config]
    ELSE Append(arr, config)

\* Map.set / Map.delete on domSelectors
mapSet(D, p, v) == [q \in DOMAIN D \cup {p} |-> IF q = p THEN v ELSE D[q]]
mapDelete(D, p) == [q \in DOMAIN D \ {p} |-> D[q]]

\* selectorCache.set(cacheKey, {matcher, config}) and selectorCache.delete(cacheKey)
cacheSet(C, config) ==
  {e \in C : e.key # cacheKey(config.pluginName, config.selector)}
    \cup {[key |-> cacheKey(config.pluginName, config.selector), config |-> config]}

cacheDelete(C, key) == {e \in C : e.key # key}

\* ---- the public methods
\* start()
DomStart ==
  /\ IF domIsActive
       THEN UNCHANGED <<observer, domIsActive>>
       ELSE /\ observer' = startObserver(domSelectors)
            /\ domIsActive' = TRUE
  /\ domStarted' = TRUE
  /\ lastDomCall' = DomCall("start", NoDomCall.config, domIsActive)
  /\ UNCHANGED <<domSelectors, selectorCache, debounceTimer, pendingMutations, hostTimers,
                 domChanges, arrived, dropped, busVars, kbVars, mouseVars, netVars>>

\* stop()
DomStop ==
  /\ IF domIsActive
       THEN StopEffects
       ELSE UNCHANGED <<observer, hostTimers, debounceTimer, pendingMutations, arrived,
                        dropped, domIsActive>>
  /\ lastDomCall' = DomCall("stop", NoDomCall.config, domIsActive)
  /\ UNCHANGED <<domSelectors, selectorCache, domStarted, domChanges, busVars, kbVars,
                 mouseVars, netVars>>

\* clear(): the registry and the cache are emptied, the timer is cleared and the
\* buffer dropped; the MutationObserver and isActive are left as they are
DomClear ==
  /\ domSelectors' = [p \in {} |-> <<>>]
  /\ selectorCache' = {}
  /\ hostTimers' = IF debounceTimer # 0 THEN hostTimers \ {debounceTimer} ELSE hostTimers
  /\ debounceTimer' = 0
  /\ pendingMutations' = <<>>
  /\ arrived' = <<>>
  /\ lastDomCall' = DomCall("clear", NoDomCall.config, domIsActive)
  /\ UNCHANGED <<observer, domIsActive, domStarted, domChanges, dropped, busVars, kbVars,
                 mouseVars, netVars>>

\* registerDomSelector(config); no selector-change callback is registered
registerDomSelector(config) ==
  LET p == config.pluginName
      pluginSelectors == IF p \in DOMAIN domSelectors THEN domSelectors[p] ELSE <<>>
      D == mapSet(domSelectors, p, upsert(pluginSelectors, config))
  IN /\ domSelectors' = D
     /\ selectorCache' = cacheSet(selectorCache, config)
     /\ IF smartStartStarts(D)
          THEN /\ observer' = startObserver(D)
               /\ domIsActive' = TRUE
          ELSE /\ observer' = reconfigureObserver(D)
               /\ UNCHANGED domIsActive
     /\ lastDomCall' = DomCall("register", config,
                               selectorIndex(pluginSelectors, config.selector) # 0)
     /\ UNCHANGED <<debounceTimer, pendingMutations, hostTimers, domStarted, domChanges,
                    arrived, dropped, busVars, kbVars, mouseVars, netVars>>

\* what unregisterDomSelector(pluginName, selector) leaves of the registry and of
\* the cache; selector = "" stands for a missing (or empty) argument
unregisterSelectors(p, sel) ==
  IF sel # ""
    THEN LET arr == domSelectors[p]
             index == selectorIndex(arr, sel)
             left == IF index # 0
                       THEN SubSeq(arr, 1, index - 1) \o SubSeq(arr, index + 1, Len(arr))
                       ELSE arr
         IN IF Len(left) = 0 THEN mapDelete(domSelectors, p) ELSE mapSet(domSelectors, p, left)
    ELSE mapDelete(domSelectors, p)

unregisterCache(p, sel) ==
  IF sel # ""
    THEN IF selectorIndex(domSelectors[p], sel) # 0
           THEN cacheDelete(selectorCache, cacheKey(p, sel))
           ELSE selectorCache
    ELSE {e \in selectorCache :
            \A i \in 1..Len(domSelectors[p]) :
              e.key # cacheKey(p, domSelectors[p][i].selector)}

\* unregisterDomSelector(pluginName, selector)
unregisterDomSelector(p, sel) ==
  IF p \notin DOMAIN domSelectors
    THEN /\ lastDomCall' = DomCall("unregister", DomConfig(p, sel, NoMutationTypes), FALSE)
         /\ UNCHANGED <<observer, domIsActive, domSelectors, selectorCache, debounceTimer,
                        pendingMutations, hostTimers, domStarted, domChanges, arrived,
                        dropped, busVars, kbVars, mouseVars, netVars>>
    ELSE LET D == unregisterSelectors(p, sel) IN
         /\ domSelectors' = D
         /\ selectorCache' = unregisterCache(p, sel)
         /\ IF smartStopStops(D)
              THEN StopEffects
              ELSE /\ observer' = reconfigureObserver(D)
                   /\ UNCHANGED <<hostTimers, debounceTimer, pendingMutations, arrived,
                                  dropped, domIsActive>>
         /\ lastDomCall' = DomCall("unregister", DomConfig(p, sel, NoMutationTypes),
                                   sel = "" \/ selectorIndex(domSelectors[p], sel) # 0)
         /\ UNCHANGED <<domStarted, domChanges, busVars, kbVars, mouseVars, netVars>>

\* ---- the host's callbacks
\* window.setTimeout returns an id that no timeout had before: the timeout set by
\* the n-th run of the MutationObserver callback gets the id n
setTimeoutId(n) == n

clearDebounceKeeps == hostTimers

\* clearTimeout(this.debounceTimer) under `if (this.debounceTimer)`
clearDebounce == IF debounceTimer # 0 THEN hostTimers \ {debounceTimer} ELSE hostTimers

\* this.pendingMutations.push(...mutations)
pushAll(buffer, mutations) == buffer \o mutations

\* the records of a batch that a connected MutationObserver reports: those of the
\* kinds it observes (subtree: true covers every node of the document)
delivered(batch) ==
  [i \in 1..Len(batch) |->
     [type |-> batch[i].type, target |-> batch[i].target,
      addedNodes |-> batch[i].addedNodes, batch |-> domChanges + 1]]
reported(batch) ==
  IF observer.alive
    THEN SelectSeq(delivered(batch), LAMBDA m : m.type \in observer.observed)
    ELSE <<>>

\* the document changes; the MutationObserver callback runs with the reported records
DomChange(batch) ==
  /\ domChanges' = domChanges + 1
  /\ IF reported(batch) = <<>>
       THEN UNCHANGED <<pendingMutations, arrived, hostTimers, debounceTimer>>
       ELSE /\ pendingMutations' = pushAll(pendingMutations, reported(batch))
            /\ arrived' = arrived \o reported(batch)
            /\ hostTimers' = clearDebounce \cup {setTimeoutId(domChanges + 1)}
            /\ debounceTimer' = setTimeoutId(domChanges + 1)
  /\ UNCHANGED <<observer, domIsActive, domSelectors, selectorCache, domStarted, dropped,
                 lastDomCall, busVars, kbVars, mouseVars, netVars>>

\* processBatchedMutations emits when the buffer and its filtered part are not empty
batchEmitsUnfiltered == Len(pendingMutations) # 0
batchEmits == Len(pendingMutations) # 0 /\ Len(filterRelevantMutations(pendingMutations)) > 0

\* the timeout t fires: processBatchedMutations, then the buffer and the timer are reset
TimerFires(t) ==
  /\ t \in hostTimers
  /\ hostTimers' = hostTimers \ {t}
  /\ IF batchEmits
       THEN EmitData("dom_mutation",
                     processMutationsData(filterRelevantMutations(pendingMutations)))
       ELSE UNCHANGED busVars
  /\ pendingMutations' = <<>>
  /\ arrived' = <<>>
  /\ debounceTimer' = 0
  /\ UNCHANGED <<observer, domIsActive, domSelectors, selectorCache, domStarted, domChanges,
                 dropped, lastDomCall, kbVars, mouseVars, netVars>>

\* the MutationRecords the document of the model can produce
MutationRecord(type, target, addedNodes) ==
  [type |-> type, target |-> target, addedNodes |-> addedNodes]

GalleryInserted == MutationRecord("childList", "root", <<"gallery">>)
CaptionInserted == MutationRecord("childList", "gallery", <<"caption">>)
RootAttribute == MutationRecord("attributes", "root", <<>>)
GalleryAttribute == MutationRecord("attributes", "gallery", <<>>)
CaptionText == MutationRecord("characterData", "caption", <<>>)

\* -------------------------------------------------------- KeyboardListener
\* COMMON_KEYBINDINGS: the object's property names and their values
COMMON_KEYBINDINGS ==
  [SAVE |-> "Ctrl+S", COPY |-> "Ctrl+C", PASTE |-> "Ctrl+V", CUT |-> "Ctrl+X",
   UNDO |-> "Ctrl+Z", REDO |-> "Ctrl+Y", SELECT_ALL |-> "Ctrl+A", FIND |-> "Ctrl+F",
   REFRESH |-> "F5", DEV_TOOLS |-> "F12"]

\* KeyboardEvent.key values of the model and String.prototype.toUpperCase on them
KeyValues == {"s", "S", "F5", "Save"}

toUpperCase(key) ==
  CASE key = "s" -> "S"
    [] key = "Save" -> "SAVE"
    [] OTHER -> key

KeyboardEvent(key, ctrlKey, altKey, shiftKey, metaKey) ==
  [key |-> key, ctrlKey |-> ctrlKey, altKey |-> altKey, shiftKey |-> shiftKey,
   metaKey |-> metaKey]

\* parts.join("+")
RECURSIVE join(_)
join(parts) ==
  IF Len(parts) = 0 THEN ""
  ELSE IF Len(parts) = 1 THEN parts[1]
  ELSE parts[1] \o "+" \o join(Tail(parts))

\* the combination string checkKeybinding builds
combinationOf(event) ==
  join((IF event.ctrlKey THEN <<"Ctrl">> ELSE <<>>)
       \o (IF event.altKey THEN <<"Alt">> ELSE <<>>)
       \o (IF event.shiftKey THEN <<"Shift">> ELSE <<>>)
       \o (IF event.metaKey THEN <<"Meta">> ELSE <<>>)
       \o <<toUpperCase(event.key)>>)

\* checkKeybinding: COMMON_KEYBINDINGS[combination], a property lookup by name
NoKeybinding == [found |-> FALSE, combination |-> "", action |-> ""]

checkKeybinding(event) ==
  IF combinationOf(event) \in DOMAIN COMMON_KEYBINDINGS
    THEN [found |-> TRUE, combination |-> combinationOf(event),
          action |-> COMMON_KEYBINDINGS[combinationOf(event)]]
    ELSE NoKeybinding

InitKb ==
  /\ kbIsActive = FALSE
  /\ kbListeners = <<>>
  /\ docHandlers = {}
  /\ keyEvents = [n |-> 0, type |-> "none", event |-> <<>>]

\* a handler function that setupKeyboardListeners creates: a new one per call
newHandler(type) == [type |-> type, n |-> 1 + Cardinality(docHandlers)]

\* the cleanup functions run: each removes its handler from the document
detachNone(handlers, cleanups) == handlers
detach(handlers, cleanups) == handlers \ {cleanups[i] : i \in 1..Len(cleanups)}

\* the handlers the document calls for an event of the type, one call each
handlersFor(type) == {h \in docHandlers : h.type = type}

RECURSIVE repeat(_, _)
repeat(es, n) == IF n = 0 THEN <<>> ELSE es \o repeat(es, n - 1)

\* document dispatches an event: every attached handler of the type makes its emits
dispatchEvent(type, es) ==
  IF handlersFor(type) = {}
    THEN UNCHANGED busVars
    ELSE EmitAll(repeat(es, Cardinality(handlersFor(type))))

\* KeyboardListener.start()
KbStart ==
  /\ IF kbIsActive
       THEN UNCHANGED <<kbIsActive, kbListeners, docHandlers>>
       ELSE /\ docHandlers' = docHandlers \cup {newHandler("keydown"), newHandler("keyup")}
            /\ kbListeners' = kbListeners \o <<newHandler("keydown"), newHandler("keyup")>>
            /\ kbIsActive' = TRUE
  /\ UNCHANGED <<keyEvents, busVars, domVars, mouseVars, netVars>>

\* KeyboardListener.stop()
KbStop ==
  /\ IF ~kbIsActive
       THEN UNCHANGED <<kbIsActive, kbListeners, docHandlers>>
       ELSE /\ docHandlers' = detach(docHandlers, kbListeners)
            /\ kbListeners' = <<>>
            /\ kbIsActive' = FALSE
  /\ UNCHANGED <<keyEvents, busVars, domVars, mouseVars, netVars>>

\* what keydownHandler passes to emit: the key-down record, then the keybinding record
keydownEmits(event) ==
  <<[kind |-> "keydown", data |-> event]>>
    \o (IF checkKeybinding(event).found
          THEN <<[kind |-> "keybinding",
                  data |-> [combination |-> checkKeybinding(event).combination,
                            action |-> checkKeybinding(event).action,
                            originalKeyEvent |-> event]]>>
          ELSE <<>>)

\* the document dispatches a keydown event: the attached keydownHandler runs
KeyDown(event) ==
  /\ keyEvents' = [n |-> keyEvents.n + 1, type |-> "keydown", event |-> event]
  /\ dispatchEvent("keydown", keydownEmits(event))
  /\ UNCHANGED <<kbIsActive, kbListeners, docHandlers, domVars, mouseVars, netVars>>

\* the document dispatches a keyup event: the attached keyupHandler runs
KeyUp(event) ==
  /\ keyEvents' = [n |-> keyEvents.n + 1, type |-> "keyup", event |-> event]
  /\ dispatchEvent("keyup", <<[kind |-> "keyup", data |-> event]>>)
  /\ UNCHANGED <<kbIsActive, kbListeners, docHandlers, domVars, mouseVars, netVars>>

\* ----------------------------------------------------------- MouseListener
MouseTypes == {"mousemove", "mousedown", "mouseup", "click", "dblclick"}

\* the order in which setupMouseListeners attaches its handlers
MouseTypeOrder == <<"mousemove", "mousedown", "mouseup", "click", "dblclick">>

MouseEvent(clientX, clientY) == [clientX |-> clientX, clientY |-> clientY]

\* createMouseEventData: the position is read from the event
createMouseEventData(type, originalEvent) ==
  [kind |-> type,
   data |-> [position |-> [x |-> originalEvent.clientX, y |-> originalEvent.clientY],
             originalEvent |-> originalEvent]]

InitMouse ==
  /\ mouseIsActive = FALSE
  /\ mouseListeners = <<>>
  /\ pointerEvents = [n |-> 0, type |-> "none", event |-> <<>>]

\* the five handlers one call of setupMouseListeners creates
mouseHandlers == [i \in 1..Len(MouseTypeOrder) |-> newHandler(MouseTypeOrder[i])]

\* MouseListener.start()
MouseStart ==
  /\ IF mouseIsActive
       THEN UNCHANGED <<mouseIsActive, mouseListeners, docHandlers>>
       ELSE /\ docHandlers' = docHandlers \cup {mouseHandlers[i] : i \in 1..Len(mouseHandlers)}
            /\ mouseListeners' = mouseListeners \o mouseHandlers
            /\ mouseIsActive' = TRUE
  /\ UNCHANGED <<pointerEvents, kbIsActive, kbListeners, keyEvents, busVars, domVars, netVars>>

\* MouseListener.stop()
MouseStop ==
  /\ IF ~mouseIsActive
       THEN UNCHANGED <<mouseIsActive, mouseListeners, docHandlers>>
       ELSE /\ docHandlers' = detach(docHandlers, mouseListeners)
            /\ mouseListeners' = <<>>
            /\ mouseIsActive' = FALSE
  /\ UNCHANGED <<pointerEvents, kbIsActive, kbListeners, keyEvents, busVars, domVars, netVars>>

\* the document dispatches a mouse event of the type: the attached handler runs
PointerEvent(type, event) ==
  /\ pointerEvents' = [n |-> pointerEvents.n + 1, type |-> type, event |-> event]
  /\ dispatchEvent(type, <<createMouseEventData(type, event)>>)
  /\ UNCHANGED <<mouseIsActive, mouseListeners, kbVars, domVars, netVars>>

\* --------------------------------------------------------- NetworkListener
\* generateRequestId: `req_${Date.now()}_${++this.requestCounter}`
generateRequestId(now, counter) == [time |-> now, counter |-> counter + 1]

NoRequestId == [time |-> 0, counter |-> 0]

\* an XMLHttpRequest object: custom = made by CustomXMLHttpRequest, whose closure
\* holds requestId, url and the wrapped open/send; pending = the request (its
\* number in netRequests) that send() started and loadend has not yet ended
XhrObject(custom, requestId) ==
  [custom |-> custom, requestId |-> requestId, url |-> "", pending |-> 0]

\* a request a script issued: by which primitive, on which object, while active or not
NetRequest(primitive, obj, url) ==
  [primitive |-> primitive, obj |-> obj, url |-> url, active |-> netIsActive]

InitNet ==
  /\ netIsActive = FALSE
  /\ windowFetch = "original"
  /\ windowXHR = "original"
  /\ requestCounter = 0
  /\ netNow = 0
  /\ xhrs = <<>>
  /\ fetches = {}
  /\ netRequests = <<>>

\* NetworkListener.start(): interceptFetch and interceptXMLHttpRequest
NetStart ==
  /\ IF netIsActive
       THEN UNCHANGED <<netIsActive, windowFetch, windowXHR>>
       ELSE /\ windowFetch' = "wrapped"
            /\ windowXHR' = "custom"
            /\ netIsActive' = TRUE
  /\ UNCHANGED <<requestCounter, netNow, xhrs, fetches, netRequests, busVars, domVars, kbVars,
                 mouseVars>>

\* NetworkListener.stop(): the saved originals are put back
NetStop ==
  /\ IF ~netIsActive
       THEN UNCHANGED <<netIsActive, windowFetch, windowXHR>>
       ELSE /\ windowFetch' = "original"
            /\ windowXHR' = "original"
            /\ netIsActive' = FALSE
  /\ UNCHANGED <<requestCounter, netNow, xhrs, fetches, netRequests, busVars, domVars, kbVars,
                 mouseVars>>

\* a script calls window.fetch(url) at time now: the wrapper tags the call, emits
\* the request record and awaits the original fetch; the original emits nothing
Fetch(url, now) ==
  /\ netNow' = now
  /\ netRequests' = Append(netRequests, NetRequest("fetch", 0, url))
  /\ IF windowFetch = "wrapped"
       THEN /\ requestCounter' = requestCounter + 1
            /\ fetches' = fetches \cup
                 {[requestId |-> generateRequestId(now, requestCounter), url |-> url,
                   req |-> Len(netRequests) + 1]}
            /\ EmitData("network_request",
                        [url |-> url, requestId |-> generateRequestId(now, requestCounter)])
       ELSE UNCHANGED <<requestCounter, fetches, busVars>>
  /\ UNCHANGED <<netIsActive, windowFetch, windowXHR, xhrs, domVars, kbVars, mouseVars>>

\* the original fetch of a wrapped call settles: when it resolves and the body can
\* be read, processResponse emits the response record; else the error is logged
FetchSettles(f, ok) ==
  /\ f \in fetches
  /\ fetches' = fetches \ {f}
  /\ IF ok
       THEN EmitData("network_response", [url |-> f.url, requestId |-> f.requestId])
       ELSE UNCHANGED busVars
  /\ UNCHANGED <<netIsActive, windowFetch, windowXHR, requestCounter, netNow, xhrs,
                 netRequests, domVars, kbVars, mouseVars>>

\* a script evaluates `new XMLHttpRequest()` at time now: CustomXMLHttpRequest makes
\* the id in its constructor and wraps open and send of the object it returns
NewXHR(now) ==
  /\ netNow' = now
  /\ IF windowXHR = "custom"
       THEN /\ requestCounter' = requestCounter + 1
            /\ xhrs' = Append(xhrs, XhrObject(TRUE, generateRequestId(now, requestCounter)))
       ELSE /\ xhrs' = Append(xhrs, XhrObject(FALSE, NoRequestId))
            /\ UNCHANGED requestCounter
  /\ UNCHANGED <<netIsActive, windowFetch, windowXHR, fetches, netRequests, busVars, domVars,
                 kbVars, mouseVars>>

\* a script calls open(method, url) and send() on the object i, which has no
\* request under way: the wrapped send emits the request record
XhrSend(i, url) ==
  /\ i \in 1..Len(xhrs)
  /\ xhrs[i].pending = 0
  /\ xhrs' = [xhrs EXCEPT ![i].url = url, ![i].pending = Len(netRequests) + 1]
  /\ netRequests' = Append(netRequests, NetRequest("xhr", i, url))
  /\ IF xhrs[i].custom
       THEN EmitData("network_request", [url |-> url, requestId |-> xhrs[i].requestId])
       ELSE UNCHANGED busVars
  /\ UNCHANGED <<netIsActive, windowFetch, windowXHR, requestCounter, netNow, fetches, domVars,
                 kbVars, mouseVars>>

\* the request of object i ends (readyState 4) and loadend fires: the listener that
\* CustomXMLHttpRequest added runs processXHRResponse
XhrLoadend(i) ==
  /\ i \in 1..Len(xhrs)
  /\ xhrs[i].pending # 0
  /\ xhrs' = [xhrs EXCEPT ![i].pending = 0]
  /\ IF xhrs[i].custom
       THEN EmitData("network_response",
                     [url |-> xhrs[i].url, requestId |-> xhrs[i].requestId])
       ELSE UNCHANGED busVars
  /\ UNCHANGED <<netIsActive, windowFetch, windowXHR, requestCounter, netNow, fetches,
                 netRequests, domVars, kbVars, mouseVars>>

Init == InitBus /\ InitDom /\ InitKb /\ InitMouse /\ InitNet

\* the calls a behaviour makes, with their arguments drawn from the given sets
NextOf(KS, PS, OS, SS, IS, RS, maxCalls) ==
  /\ \/ \E k \in KS, p \in PS, o \in OS, s \in SS, id \in IS :
          nextUid - 1 + Len(recs) < maxCalls /\ On(k, p, o, s, id)
     \/ \E k \in KS, id \in (IS \ {0}) \cup (1..maxCalls) : Off(k, id)
     \/ \E s \in SS : removeListenersBySource(s)
     \/ \E k \in KS : nextUid - 1 + Len(recs) < maxCalls /\ Emit(k)
     \/ \E f \in Frames, result \in RS : ListenerSettles(f, result)
     \/ \E f \in Frames : EmitResume(f)
  /\ UNCHANGED <<domVars, kbVars, mouseVars, netVars>>

\* dispatch passes: every kind of listener result, once listeners, two priorities
Next == NextOf({"keydown"}, {0, 1}, BOOLEAN, {"pluginA"}, {0}, Results, MaxCalls)

Spec == Init /\ [][Next]_vars

\* priority order: three priorities, registrations in every order
NextOrder ==
  NextOf({"keydown"}, Priorities, {FALSE}, {"pluginA"}, {0}, {"true", "false"}, OrderMaxCalls)

SpecOrder == Init /\ [][NextOrder]_vars

\* the registry: ties of priority, two sources, once listeners that expire
NextRegistry ==
  NextOf({"keydown"}, {0, 1}, BOOLEAN, Sources, {0}, {"true", "false"}, RegMaxCalls)

SpecRegistry == Init /\ [][NextRegistry]_vars

\* emit, isProcessing and eventQueue: records of two kinds, emitted at any time
NextQueue ==
  NextOf(Kinds, {0}, {FALSE}, {"pluginA"}, {0}, {"true", "false"}, QueueMaxCalls)

SpecQueue == Init /\ [][NextQueue]_vars

\* owners and ids: two kinds, two sources, generated and caller-supplied ids
NextOwner ==
  NextOf(Kinds, {0}, {FALSE}, Sources, {0} \cup ExplicitIds, {"false"}, OwnerMaxCalls)

SpecOwner == Init /\ [][NextOwner]_vars

\* registrations that share one caller-supplied id, with two priorities
NextIds ==
  NextOf({"keydown"}, {0, 1}, BOOLEAN, {"pluginA"}, ExplicitIds, {"false"}, IdsMaxCalls)

SpecIds == Init /\ [][NextIds]_vars

\* emit and clear(): records of two kinds, clear() called at any time
NextClear ==
  \/ NextOf(Kinds, {0}, {FALSE}, {"pluginA"}, {0}, {"true", "false"}, ClearMaxCalls)
  \/ Clear /\ UNCHANGED <<domVars, kbVars, mouseVars, netVars>>

SpecClear == Init /\ [][NextClear]_vars

\* the calls and callbacks of the DomObserver, with their arguments drawn from the
\* given sets: plugin names, selectors, mutationTypes values, batches of records
NextDomOf(PS, SELS, MTS, BS, maxChanges) ==
  \/ DomStart
  \/ \E p \in PS, sel \in SELS, mt \in MTS : registerDomSelector(DomConfig(p, sel, mt))
  \/ \E p \in PS, sel \in SELS \cup {""} : unregisterDomSelector(p, sel)
  \/ \E batch \in BS : domChanges < maxChanges /\ DomChange(batch)
  \/ \E t \in hostTimers : TimerFires(t)
  \/ \E f \in Frames : EmitResume(f) /\ UNCHANGED <<domVars, kbVars, mouseVars, netVars>>

\* subscriptions of two plugins, started by EventEmitter.init or by smartStart
DomPlugins == {"pluginA", "pluginB"}
DomSelectorStrings == {"div.gallery", "#root"}
DomMutationTypeValues == {NoMutationTypes, [has |-> TRUE, types |-> {"childList"}]}
DomBatches == {<<GalleryInserted, CaptionText>>}

NextDom ==
  NextDomOf(DomPlugins, DomSelectorStrings, DomMutationTypeValues, DomBatches, DomMaxChanges)

\* the observation configuration: one selector, every shape of mutationTypes
NextObserve ==
  NextDomOf(DomPlugins, {"div.gallery"},
            {NoMutationTypes, [has |-> TRUE, types |-> {}],
             [has |-> TRUE, types |-> {"childList"}],
             [has |-> TRUE, types |-> {"attributes", "characterData"}]},
            {<<GalleryAttribute>>}, ObserveMaxChanges)

SpecObserve == Init /\ [][NextObserve]_vars

SpecDom == Init /\ [][NextDom]_vars

\* the filter: one plugin, every kind of record and of mutationTypes value
NextFilter ==
  NextDomOf({"pluginA"}, {"div.gallery", "#root"},
            {NoMutationTypes, [has |-> TRUE, types |-> {"childList"}],
             [has |-> TRUE, types |-> {"characterData"}]},
            {<<GalleryInserted>>, <<CaptionInserted>>, <<RootAttribute>>,
             <<GalleryAttribute>>, <<CaptionText>>, <<RootAttribute, CaptionText>>},
            FilterMaxChanges)

SpecFilter == Init /\ [][NextFilter]_vars

\* the debounce timer: bursts of callbacks, explicit stop() and clear(), auto-stop
\* by unregisterDomSelector, restart by start() or by registerDomSelector
TimerBatches == {<<GalleryInserted, RootAttribute>>, <<RootAttribute>>}

NextTimer ==
  \/ NextDomOf({"pluginA"}, {"div.gallery"}, {[has |-> TRUE, types |-> {"childList"}]},
               TimerBatches, TimerMaxChanges)
  \/ DomStop
  \/ DomClear

SpecTimer == Init /\ [][NextTimer]_vars

\* selectors that are not valid CSS next to valid ones, changes of element nodes
NextMalformed ==
  NextDomOf({"pluginA"}, {"div.gallery"} \cup MalformedSelectors,
            {NoMutationTypes, [has |-> TRUE, types |-> {"childList"}]},
            {<<GalleryInserted, GalleryAttribute>>, <<RootAttribute>>}, MalformedMaxChanges)

SpecMalformed == Init /\ [][NextMalformed]_vars

\* the matcher cache: plugin names and selectors with and without ':', clear()
NextCache ==
  \/ NextDomOf({"ui", "ui:a"}, {"a:hover", "hover"}, {NoMutationTypes},
               {<<GalleryInserted>>}, DomMaxChanges)
  \/ DomClear

SpecCache == Init /\ [][NextCache]_vars

\* the window between a burst and its flush: subscriptions of one plugin come
\* and go while notifications about element nodes wait in the buffer
NextWindow ==
  NextDomOf({"pluginA"}, {"div.gallery", "#root"},
            {NoMutationTypes, [has |-> TRUE, types |-> {"childList"}]},
            {<<RootAttribute>>, <<GalleryInserted, GalleryAttribute>>}, WindowMaxChanges)

SpecWindow == Init /\ [][NextWindow]_vars

\* the keyboard: key events while listeners of keydown are registered and called
KeyEventsOf(keys) == {KeyboardEvent(key, ctrl, FALSE, sh, FALSE) :
                        key \in keys, ctrl \in BOOLEAN, sh \in BOOLEAN}

NextKeyboard ==
  \/ NextOf({"keydown"}, {0}, {FALSE}, {"pluginA"}, {0}, {"true", "false"}, KeyMaxCalls)
  \/ KbStart
  \/ KbStop
  \/ \E event \in KeyEventsOf(KeyValues) :
       nextUid - 1 + Len(recs) + keyEvents.n < KeyMaxCalls /\ KeyDown(event)
  \/ \E event \in KeyEventsOf({"s"}) :
       nextUid - 1 + Len(recs) + keyEvents.n < KeyMaxCalls /\ KeyUp(event)

SpecKeyboard == Init /\ [][NextKeyboard]_vars

\* the keyboard and the mouse listener started and stopped in any order, with
\* key and pointer events in between
NextInput ==
  \/ KbStart
  \/ KbStop
  \/ MouseStart
  \/ MouseStop
  \/ \E event \in KeyEventsOf({"s", "Save"}) :
       keyEvents.n + pointerEvents.n < InputMaxEvents /\ KeyDown(event)
  \/ \E event \in KeyEventsOf({"s"}) :
       keyEvents.n + pointerEvents.n < InputMaxEvents /\ KeyUp(event)
  \/ \E type \in MouseTypes :
       keyEvents.n + pointerEvents.n < InputMaxEvents /\ PointerEvent(type, MouseEvent(0, 0))
  \/ \E f \in Frames : EmitResume(f) /\ UNCHANGED <<domVars, kbVars, mouseVars, netVars>>

SpecInput == Init /\ [][NextInput]_vars

\* scripts that use fetch and XMLHttpRequest while the network listener is
\* started and stopped
NetUrls == {"/a"}

NextNet ==
  \/ NetStart
  \/ NetStop
  \/ \E url \in NetUrls, now \in {netNow, netNow + 1} :
       Len(netRequests) + Len(xhrs) < NetMaxCalls /\ Fetch(url, now)
  \/ \E f \in fetches, ok \in BOOLEAN : FetchSettles(f, ok)
  \/ \E now \in {netNow, netNow + 1} :
       Len(netRequests) + Len(xhrs) < NetMaxCalls /\ NewXHR(now)
  \/ \E i \in 1..Len(xhrs), url \in NetUrls :
       Len(netRequests) + Len(xhrs) < NetMaxCalls /\ XhrSend(i, url)
  \/ \E i \in 1..Len(xhrs) : XhrLoadend(i)
  \/ \E f \in Frames : EmitResume(f) /\ UNCHANGED <<domVars, kbVars, mouseVars, netVars>>

SpecNet == Init /\ [][NextNet]_vars

\* every listener call settles, and a settled promise resumes its awaiter
LiveQueue ==
  /\ SpecQueue
  /\ WF_busVars(\E f \in Frames, result \in {"true", "false"} : ListenerSettles(f, result))
  /\ WF_busVars(\E f \in Frames : EmitResume(f))

\* ------------------------------------------------------------------ claims
Uids(a) == [i \in 1..Len(a) |-> a[i].uid]

DistinctPriorities(a) == \A i, j \in 1..Len(a) : i # j => a[i].priority # a[j].priority

StrictlyDescending(a) == \A i, j \in 1..Len(a) : i < j => a[i].priority > a[j].priority

SortedStable(a) ==
  \A i, j \in 1..Len(a) :
    i < j => \/ a[i].priority > a[j].priority
             \/ a[i].priority = a[j].priority /\ a[i].uid < a[j].uid

\* the step in which processEvent of frame f returns
PassReturns(f) == InPass(f) /\ frames'[f].pc = "await_pass"

\* the step in which the awaited listener call of frame f settles
Settles(f) ==
  InPass(f) /\ (frames'[f].pc = "await_pass" \/ Len(frames'[f].log) = Len(frames[f].log) + 1)

\* C1: when a pass over listeners of pairwise distinct priorities returns without
\* a short-circuit, and no on()/off() changed the kind's list while the pass ran,
\* the pass has called every listener of the list exactly once, highest priority
\* first, whatever the order of the registrations (uids) was.
C1_PriorityOrder ==
  [][\A f \in Frames :
       (/\ PassReturns(f)
        /\ ~frames'[f].res
        /\ ~frames[f].mut
        /\ DistinctPriorities(IterArr(f)))
       => /\ frames'[f].log = Uids(IterArr(f))
          /\ StrictlyDescending(IterArr(f))]_vars

\* three listeners registered in an order that is not their priority order have
\* all been called, by priority, in a pass that was not short-circuited
C1_Witness ==
  \E f \in Frames :
    /\ frames[f].pc = "await_pass" /\ ~frames[f].res /\ ~frames[f].mut
    /\ Len(frames[f].log) = 3
    /\ frames[f].log[1] > frames[f].log[2]
    /\ frames[f].log = Uids(listeners["keydown"].arr)
    /\ StrictlyDescending(listeners["keydown"].arr)

\* C2: in every reachable state (after any on, off, removeListenersBySource and
\* expiry of once listeners) every kind's list is in non-increasing priority
\* order, and listeners of equal priority are in registration order.
C2_RegistrySorted == \A k \in Kinds : SortedStable(listeners[k].arr)

\* of three registrations one has been removed; the two that are left have the
\* same priority and the one registered first comes first
C2_Witness ==
  /\ nextUid = 4
  /\ Len(listeners["keydown"].arr) = 2
  /\ listeners["keydown"].arr[1].priority = listeners["keydown"].arr[2].priority
  /\ listeners["keydown"].arr[1].uid = 1
  /\ listeners["keydown"].arr[2].uid = 3

\* C3: a listener call that settles with exactly `true` ends the pass at once:
\* no further listener is called in it, the pass returns true, and emit resolves
\* to true for a record it dispatched itself; a call that settles with anything
\* else does not end the pass: the next listener of the list, if any, is called.
C3_ShortCircuit ==
  /\ [][\A f \in Frames :
          Settles(f) =>
            IF frames'[f].last = "true"
              THEN /\ frames'[f].pc = "await_pass"
                   /\ frames'[f].res
                   /\ frames'[f].log = frames[f].log
                   /\ recs'[frames[f].rec].sc
              ELSE frames[f].idx < Len(IterArr(f)) =>
                     /\ frames'[f].pc = "listener"
                     /\ frames'[f].log =
                          Append(frames[f].log, IterArr(f)[frames[f].idx + 1].uid)]_vars
  /\ [](\A r \in 1..Len(recs) :
          (recs[r].direct /\ recs[r].ret # "pending") => (recs[r].ret = "true" <=> recs[r].sc))

\* the first of two listeners returned true: the pass is over, the second was not called
C3_Witness ==
  \E f \in Frames :
    /\ frames[f].pc = "await_pass" /\ frames[f].res /\ frames[f].last = "true"
    /\ ~frames[f].mut
    /\ Len(listeners["keydown"].arr) = 2
    /\ frames[f].log = <<listeners["keydown"].arr[1].uid>>

\* C4: a once listener that has been called is registered no longer than the
\* pass that called it -- also when its call short-circuited that pass -- so no
\* later emit calls it again.
C4_OnceFiresOnce ==
  \A k \in Kinds : \A i \in 1..Len(listeners[k].arr) :
    LET c == listeners[k].arr[i] IN
    (c.once /\ c.uid \in fired) =>
      \E f \in Frames : InPass(f) /\ \E n \in 1..Len(frames[f].log) : frames[f].log[n] = c.uid

C6_OnePassAtATime ==
  /\ Cardinality({f \in Frames : frames[f].pc # "idle"}) <= 1
  /\ Cardinality({r \in 1..Len(recs) : recs[r].st = "active"}) <= 1

\* two records were emitted while a pass is active; it is still the only pass
C6_Witness ==
  \E f \in Frames : InPass(f) /\ Len(eventQueue) = 2 /\ recs[frames[f].rec].st = "active"

C8_EmitWhileProcessing ==
  /\ [][(Len(recs') = Len(recs) + 1 /\ \E f \in Frames : InPass(f)) =>
          /\ eventQueue' = Append(eventQueue, Len(recs'))
          /\ frames' = frames /\ fired' = fired
          /\ recs'[Len(recs')].ret = "false"]_vars
  /\ [](\A r \in 1..Len(recs) : ~recs[r].direct => recs[r].ret = "false")

\* a record that was queued short-circuited its pass; its emit had returned false
C8_Witness ==
  \E r \in 1..Len(recs) :
    ~recs[r].direct /\ recs[r].during # 0 /\ recs[r].sc /\ recs[r].ret = "false"

Emitted(r) == r <= Len(recs)

DispatchedOnce(r) == IF r <= Len(recs) THEN recs[r].st = "done" /\ recs[r].passes = 1 ELSE FALSE

C10_ListenerFault ==
  /\ [][\A f \in Frames :
          (Settles(f) /\ frames'[f].last = "throw") =>
            /\ ~frames'[f].threw
            /\ IF frames[f].idx < Len(IterArr(f))
                 THEN /\ frames'[f].pc = "listener"
                      /\ frames'[f].log =
                           Append(frames[f].log, IterArr(f)[frames[f].idx + 1].uid)
                 ELSE frames'[f].pc = "await_pass" /\ ~frames'[f].res]_vars
  /\ [](\A f \in Frames : ~frames[f].threw)
  /\ [](\A r \in 1..Len(recs) : recs[r].ret \in {"pending", "true", "false"})

\* the first listener threw and the second has been called
C10_Witness ==
  \E f \in Frames :
    /\ InPass(f) /\ frames[f].last = "throw" /\ ~frames[f].mut
    /\ Len(frames[f].log) = 2
    /\ frames[f].log = Uids(listeners["keydown"].arr)

\* the registrations of owner s / of the other owners, in the order of the list
OfSource(a, s) == SelectSeq(a, LAMBDA c : c.source = s)
NotOfSource(a, s) == SelectSeq(a, LAMBDA c : c.source # s)

\* registration u was taken out by a removeListenersBySource that returned
\* before record r was passed to emit
RemovedBefore(u, r) == \E x \in removedBySource : x.uid = u /\ x.at < r

\* C11: removeListenersBySource(X) leaves, under every kind, no registration of
\* owner X and all the registrations of the other owners, in their order; and the
\* pass of a record emitted after the call invokes no listener that the call
\* took out.
C11_RemoveByOwner ==
  /\ [][\A s \in Sources :
          removeListenersBySource(s) =>
            \A k \in Kinds : /\ listeners'[k].arr = NotOfSource(listeners[k].arr, s)
                             /\ OfSource(listeners'[k].arr, s) = <<>>]_vars
  /\ [](\A f \in Frames :
          frames[f].pc # "idle" =>
            \A i \in 1..Len(frames[f].log) : ~RemovedBefore(frames[f].log[i], frames[f].rec))

\* a record emitted after one owner's listener of its kind was removed has had
\* its pass: it called the other owner's listener and nothing else
C11_Witness ==
  \E f \in Frames :
    /\ frames[f].pc = "await_pass"
    /\ Cardinality({x \in removedBySource :
                      x.kind = KindOf(frames[f].rec) /\ x.at < frames[f].rec}) = 1
    /\ Len(frames[f].log) = 1
    /\ frames[f].log = Uids(listeners[KindOf(frames[f].rec)].arr)

\* the registrations of list a that carry id
WithId(a, id) == SelectSeq(a, LAMBDA c : c.id = id)

\* list a without its i-th element
Without(a, i) == [j \in 1..(Len(a) - 1) |-> IF j < i THEN a[j] ELSE a[j + 1]]

\* C12: off(kind, id) returns true exactly when a registration with that id is
\* in the kind's list, and then it takes exactly one registration out of that
\* list, one that carries the id, and changes no other kind; otherwise (unknown
\* id, or the id is registered under another kind only) it returns false and
\* leaves the registry as it is.
C12_Unsubscribe ==
  [][\A k \in Kinds, id \in ExplicitIds \cup (1..OwnerMaxCalls) :
       Off(k, id) =>
         /\ offReturns(listeners, k, id) <=> WithId(listeners[k].arr, id) # <<>>
         /\ IF WithId(listeners[k].arr, id) # <<>>
              THEN /\ \E i \in 1..Len(listeners[k].arr) :
                        /\ listeners[k].arr[i].id = id
                        /\ listeners'[k].arr = Without(listeners[k].arr, i)
                   /\ Len(listeners'[k].arr) = Len(listeners[k].arr) - 1
                   /\ \A j \in Kinds \ {k} : listeners'[j] = listeners[j]
              ELSE listeners' = listeners]_vars

\* two registrations of one kind were made with the same caller-supplied id and a
\* third with that id under the other kind; one off() took out one of the two
C12_Witness ==
  /\ nextUid = 4
  /\ Uids(listeners["keydown"].arr) = <<2>>
  /\ Uids(listeners["custom"].arr) = <<3>>
  /\ \A k \in Kinds : \A i \in 1..Len(listeners[k].arr) :
       listeners[k].arr[i].id \in ExplicitIds /\ listeners[k].arr[i].source = "pluginA"

\* the subscriptions plugin p holds for selector sel
SubscriptionsOf(p, sel) ==
  IF p \in DOMAIN domSelectors
    THEN SelectSeq(domSelectors[p], LAMBDA c : c.selector = sel) ELSE <<>>

\* C13: after registerDomSelector(config) the plugin holds exactly one subscription
\* for config.selector, and it is config (the mutationTypes of the latest call),
\* whether the call pushed it or overwrote an older one; and in every reachable
\* state no plugin holds two subscriptions with the same selector.
C13_UpsertSubscription ==
  /\ lastDomCall.op = "register" =>
       SubscriptionsOf(lastDomCall.config.pluginName, lastDomCall.config.selector)
         = <<lastDomCall.config>>
  /\ \A p \in DOMAIN domSelectors : \A i, j \in 1..Len(domSelectors[p]) :
       i # j => domSelectors[p][i].selector # domSelectors[p][j].selector

\* the last registration overwrote the plugin's subscription for div.gallery, which
\* now carries the childList filter of that call; the plugin's other subscription
\* and the other plugin's subscription for div.gallery are as they were
C13_Witness ==
  /\ lastDomCall.op = "register" /\ lastDomCall.found
  /\ lastDomCall.config = DomConfig("pluginA", "div.gallery", [has |-> TRUE, types |-> {"childList"}])
  /\ DOMAIN domSelectors = {"pluginA", "pluginB"}
  /\ Len(domSelectors["pluginA"]) = 2
  /\ domSelectors["pluginA"][1] = lastDomCall.config
  /\ domSelectors["pluginB"] = <<DomConfig("pluginB", "div.gallery", NoMutationTypes)>>

\* ---- what the specification calls matching (4.2), stated on its own
\* the live subscriptions
LiveSubscriptions == getAllRegisteredSelectors(domSelectors)

\* a subscription declares no filter of change kinds: none given, or none named
DeclaresNoFilter(c) == ~c.mutationTypes.has \/ c.mutationTypes.types = {}

\* node n, or an ancestor of n, satisfies the path predicate of selector sel
RECURSIVE PathHolds(_, _)
PathHolds(n, sel) ==
  IF n \notin DomNodes THEN FALSE
  ELSE \/ IsElement(n) /\ sel \notin MalformedSelectors /\ matches(n, sel)
       \/ PathHolds(parentNode(n), sel)

\* subscription c matches notification m by its target: (a) the kind, (b) the path
MatchesTarget(c, m) ==
  /\ DeclaresNoFilter(c) \/ m.type \in c.mutationTypes.types
  /\ PathHolds(m.target, c.selector)

\* .. or, for a child-list change, by a newly inserted element node
MatchesInserted(c, m) ==
  /\ DeclaresNoFilter(c) \/ m.type \in c.mutationTypes.types
  /\ m.type = "childList"
  /\ \E i \in 1..Len(m.addedNodes) :
       IsElement(m.addedNodes[i]) /\ PathHolds(m.addedNodes[i], c.selector)

\* the step in which a debounce timer fires
Flush == \E t \in hostTimers : TimerFires(t)

\* the record a flush has just passed to emit
Flushed == recs'[Len(recs')].data

\* C14: the notifications that arrive in one coalescing window (from the first one
\* that arms the timer until the timer fires) lead to at most one dom_mutation
\* record, emitted when the timer fires; mutationCount is the number of its
\* descriptors, and every notification of the window that matched a live
\* subscription (every notification, when there is none) has its descriptor in it.
C14_Coalescing ==
  /\ [][Len(recs') > Len(recs) => Flush /\ Len(recs') = Len(recs) + 1]_vars
  /\ [][(Flush /\ Len(recs') > Len(recs)) =>
          /\ recs'[Len(recs')].kind = "dom_mutation"
          /\ Flushed.mutationCount = Len(Flushed.mutations)]_vars
  /\ [][Flush =>
          \A i \in 1..Len(arrived) :
            (\/ LiveSubscriptions = {}
             \/ \E c \in LiveSubscriptions :
                  MatchesTarget(c, arrived[i]) \/ MatchesInserted(c, arrived[i]))
              => /\ Len(recs') > Len(recs)
                 /\ \E j \in 1..Len(Flushed.mutations) :
                      Flushed.mutations[j] = descriptor(arrived[i])]_vars

\* C15: with no subscription registered, in any state that start, registerDomSelector
\* and unregisterDomSelector lead to once start has been called, every batch of
\* changes of the document reaches the buffer whole, and a flush emits exactly one
\* record with the descriptors of all buffered notifications, unfiltered.
C15_UnfilteredMode ==
  /\ [][\A batch \in DomBatches :
          (DomChange(batch) /\ domStarted /\ LiveSubscriptions = {}) =>
            /\ pendingMutations' = pendingMutations \o delivered(batch)
            /\ hostTimers' # {}]_vars
  /\ [][(Flush /\ LiveSubscriptions = {}) =>
          /\ Len(recs') = Len(recs) + 1
          /\ Flushed.mutations =
               [i \in 1..Len(pendingMutations) |-> descriptor(pendingMutations[i])]]_vars

\* C16: after an unregisterDomSelector call that leaves no subscription registered
\* the observer is not active and its MutationObserver is disconnected.
C16_AutoStop ==
  (lastDomCall.op = "unregister" /\ LiveSubscriptions = {}) =>
    ~domIsActive /\ ~observer.alive

\* the change kinds the live subscriptions ask for
ExpectedObserved ==
  IF LiveSubscriptions = {} \/ \E c \in LiveSubscriptions : DeclaresNoFilter(c)
    THEN DomMutationTypes
    ELSE UNION {c.mutationTypes.types : c \in LiveSubscriptions}

C18_FilterMatches ==
  LiveSubscriptions # {} =>
    filterRelevantMutations(pendingMutations) =
      SelectSeq(pendingMutations,
                LAMBDA m : \E c \in LiveSubscriptions :
                             MatchesTarget(c, m) \/ MatchesInserted(c, m))

\* ---- key bindings (4.3), stated on the binding table itself
\* a keydown handler of the listener is attached to the document
KeydownAttached == \E h \in docHandlers : h.type = "keydown"

\* the names the binding table binds to the combination of the event
BoundNames(event) ==
  {name \in DOMAIN COMMON_KEYBINDINGS : COMMON_KEYBINDINGS[name] = combinationOf(event)}

\* the records the step has appended to recs
NewRecords == SubSeq(recs', Len(recs) + 1, Len(recs'))

\* C19: when the listener is started and a keydown arrives whose combination --
\* the active modifiers in the order Ctrl, Alt, Shift, Meta, then the upper-cased
\* key, joined by '+' -- is one that COMMON_KEYBINDINGS binds to a name, a
\* keybinding record with that combination and that name as action is emitted.
C19_KeybindingMatched ==
  [][\A event \in KeyEventsOf(KeyValues) :
       (KeyDown(event) /\ KeydownAttached /\ BoundNames(event) # {}) =>
         \E i \in 1..Len(NewRecords) :
           /\ NewRecords[i].kind = "keybinding"
           /\ NewRecords[i].data.combination = combinationOf(event)
           /\ NewRecords[i].data.action \in BoundNames(event)]_vars

\* C20: a keydown whose combination is bound passes two records to emit, the
\* keydown record and then the keybinding record, and the keybinding record gets
\* no pass before the pass of the keydown record has returned, with or without
\* keydown listeners and whatever the keydown pass returned.
C20_BothDispatched ==
  /\ [][\A event \in KeyEventsOf(KeyValues) :
          (KeyDown(event) /\ KeydownAttached /\ BoundNames(event) # {}) =>
            /\ Len(NewRecords) = 2
            /\ NewRecords[1].kind = "keydown" /\ NewRecords[1].data = event
            /\ NewRecords[2].kind = "keybinding"]_vars
  /\ [](\A b \in 2..Len(recs) :
          (recs[b].kind = "keybinding" /\ recs[b].st # "queued") => recs[b - 1].st = "done")

\* ---- input listeners (4.3)
KeyTypes == {"keydown", "keyup"}

\* the records of the kind among those the step has appended to recs
NewOfKind(kind) == SelectSeq(NewRecords, LAMBDA r : r.kind = kind)

\* C21: after any sequence of start and stop calls of the keyboard and the mouse
\* listener, every event type of a listener has exactly one handler attached to
\* the document when the listener is active and none when it is not; start while
\* active and stop while inactive change nothing; and one key or pointer event
\* leads to at most one record of its kind, exactly one when the listener is active.
C21_OneHandlerPerType ==
  /\ [](\A type \in KeyTypes :
          Cardinality(handlersFor(type)) = IF kbIsActive THEN 1 ELSE 0)
  /\ [](\A type \in MouseTypes :
          Cardinality(handlersFor(type)) = IF mouseIsActive THEN 1 ELSE 0)
  /\ [][((KbStart /\ kbIsActive) \/ (KbStop /\ ~kbIsActive)
          \/ (MouseStart /\ mouseIsActive) \/ (MouseStop /\ ~mouseIsActive))
          => UNCHANGED vars]_vars
  /\ [][keyEvents' # keyEvents =>
          Len(NewOfKind(keyEvents'.type)) = (IF kbIsActive THEN 1 ELSE 0)]_vars
  /\ [][pointerEvents' # pointerEvents =>
          /\ Len(NewOfKind(pointerEvents'.type)) = (IF mouseIsActive THEN 1 ELSE 0)
          /\ Len(NewRecords) = Len(NewOfKind(pointerEvents'.type))]_vars

\* the keyboard listener is active on handlers it attached while the mouse
\* listener's handlers were attached, the mouse listener has been stopped since,
\* and of a click and a keydown only the keydown has led to a record
C21_Witness ==
  /\ kbIsActive /\ ~mouseIsActive
  /\ \E h \in handlersFor("keydown") : h.n > 1
  /\ pointerEvents.n = 1 /\ pointerEvents.type = "click"
  /\ keyEvents.n = 1 /\ keyEvents.type = "keydown"
  /\ Len(recs) = 1 /\ recs[1].kind = "keydown"

\* ---- network listener (4.3)
\* the request that a step has added to netRequests was issued after a stop
IssuedWhileStopped == Len(netRequests') > Len(netRequests) /\ ~netIsActive

\* C22: when the network listener is not active (after stop) window.fetch and
\* window.XMLHttpRequest are the originals, and a request issued then, by fetch or
\* on an XMLHttpRequest object created at any time, leads to no network_request
\* record when it is issued and to no network_response record when it ends.
C22_StopRestores ==
  /\ [](~netIsActive => windowFetch = "original" /\ windowXHR = "original")
  /\ [][IssuedWhileStopped => recs' = recs]_vars
  /\ [][\A i \in 1..Len(xhrs) :
          (XhrLoadend(i) /\ ~netRequests[xhrs[i].pending].active) => recs' = recs]_vars
  /\ [][\A f \in fetches, ok \in BOOLEAN :
          (FetchSettles(f, ok) /\ ~netRequests[f.req].active) => recs' = recs]_vars

IsRequestRecord(r) == recs[r].kind = "network_request"

IsResponseRecord(r) == recs[r].kind = "network_response"

\* C23: no two network_request records carry the same requestId, and every
\* network_response record carries the requestId of a network_request record
\* emitted before it; for fetch and for XMLHttpRequest, also when one
\* XMLHttpRequest object is used for several requests.
C23_UniqueRequestIds ==
  /\ \A a, b \in 1..Len(recs) :
       (a # b /\ IsRequestRecord(a) /\ IsRequestRecord(b)) =>
         recs[a].data.requestId # recs[b].data.requestId
  /\ \A b \in 1..Len(recs) :
       IsResponseRecord(b) =>
         \E a \in 1..(b - 1) :
           IsRequestRecord(a) /\ recs[a].data.requestId = recs[b].data.requestId

\* ---- dispatch passes, continued
\* the step in which the pass of frame f returns
PassEnds(f) == InPass(f) /\ frames'[f].pc # "listener"

\* the registration with the uid is in the registry after the step
RegisteredAfter(uid) ==
  \E k \in EventTypes : \E i \in 1..Len(listeners'[k].arr) : listeners'[k].arr[i].uid = uid

\* the once listeners that are registered and have been called
InvokedOnce ==
  {c.uid : c \in UNION {{listeners[k].arr[i] : i \in 1..Len(listeners[k].arr)} :
                          k \in EventTypes}} \cap fired

\* C24: when a pass returns, every once listener whose call threw or rejected in
\* that pass is registered no longer, whatever the other listeners of the pass
\* did -- also when a later listener short-circuited the pass -- so that no later
\* pass calls it.
C24_FaultedOnceRemoved ==
  [][\A f \in Frames :
       PassEnds(f) =>
         \A n \in 1..Len(frames'[f].faults) :
           frames'[f].faults[n] \in InvokedOnce => ~RegisteredAfter(frames'[f].faults[n])]_vars

\* the pass of frame f goes on in the step: same record, another listener called
CallsNext(f) ==
  /\ InPass(f) /\ frames'[f].pc = "listener" /\ frames'[f].rec = frames[f].rec
  /\ frames'[f].log # frames[f].log

\* C25: within a pass a listener is called only in the step in which the call
\* in flight settles, one listener per step, so that no two calls of a pass
\* are in flight; and when a call settles with true, however late, the pass
\* returns without calling another listener: no listener of lower priority
\* has run in it.
C25_OneCallInFlight ==
  /\ [][\A f \in Frames :
          CallsNext(f) =>
            /\ \E result \in Results : ListenerSettles(f, result)
            /\ frames'[f].log = Append(frames[f].log, frames'[f].cur.uid)]_vars
  /\ [](\A f \in Frames :
          InPass(f) => frames[f].cur.uid = frames[f].log[Len(frames[f].log)])
  /\ [][\A f \in Frames :
          (InPass(f) /\ ListenerSettles(f, "true")) =>
            /\ frames'[f].pc # "listener" /\ frames'[f].res
            /\ frames'[f].log = frames[f].log
            /\ ~frames[f].mut =>
                 \A i \in 1..Len(IterArr(f)) :
                   IterArr(f)[i].priority < frames[f].cur.priority =>
                     \A n \in 1..Len(frames[f].log) : frames[f].log[n] # IterArr(f)[i].uid]_vars

\* the second listener of three settled with true after the first had settled
\* with another value; the third, of lower priority, has not been called
C25_Witness ==
  \E f \in Frames :
    /\ frames[f].pc = "await_pass" /\ frames[f].res /\ frames[f].last = "true"
    /\ ~frames[f].mut
    /\ Len(listeners["keydown"].arr) = 3
    /\ frames[f].log = <<listeners["keydown"].arr[1].uid, listeners["keydown"].arr[2].uid>>
    /\ listeners["keydown"].arr[3].priority < listeners["keydown"].arr[2].priority

\* C26: when the debounce timer fires, a dom_mutation record is emitted if and
\* only if the filtered buffer is not empty, at most one record is emitted, and
\* afterwards the buffer is empty and no timer is pending, emitted or not.
C26_TimerFlush ==
  [][Flush =>
       /\ (NewRecords # <<>>) <=> (filterRelevantMutations(pendingMutations) # <<>>)
       /\ Len(NewRecords) <= 1
       /\ \A i \in 1..Len(NewRecords) : NewRecords[i].kind = "dom_mutation"
       /\ pendingMutations' = <<>>
       /\ hostTimers' = {}
       /\ debounceTimer' = 0]_vars

\* a flush has emitted the one notification the filter left of a buffer of three
\* and has left no timer
C26_Witness ==
  /\ domChanges = 2
  /\ dropped = {}
  /\ Len(recs) = 1 /\ recs[1].kind = "dom_mutation" /\ recs[1].data.mutationCount = 1
  /\ pendingMutations = <<>>
  /\ hostTimers = {}

\* C27: a step that stops the observer, by stop() or by the auto-stop of
\* unregisterDomSelector, leaves no timer pending and the buffer empty; a stopped
\* observer has neither; and no flush, before or after a restart, finds in the
\* buffer a notification that was in the buffer when the observer was stopped.
C27_StopDiscards ==
  /\ [][(domIsActive /\ ~domIsActive') =>
          /\ hostTimers' = {}
          /\ debounceTimer' = 0
          /\ pendingMutations' = <<>>
          /\ recs' = recs]_vars
  /\ [](~domIsActive => hostTimers = {} /\ pendingMutations = <<>>)
  /\ [][Flush => \A i \in 1..Len(pendingMutations) :
                    pendingMutations[i].batch \notin dropped]_vars

\* the first burst was in the buffer when the observer was stopped; the observer
\* was started again and the second burst has been flushed and emitted
C27_Witness ==
  /\ dropped = {1}
  /\ domChanges = 2
  /\ domIsActive
  /\ Len(recs) = 1 /\ recs[1].kind = "dom_mutation"
  /\ pendingMutations = <<>>

\* the callback that delivered the last record of the buffer
LastBurst == pendingMutations[Len(pendingMutations)].batch

\* C28: at most one debounce timer is pending, and one is pending exactly when the
\* buffer is not empty; a burst that arrives while a timer is pending cancels that
\* timer and sets a new one; and the timer that flushes the buffer is the one set
\* by the last burst in the buffer.
C28_OneTimer ==
  /\ [](/\ Cardinality(hostTimers) <= 1
        /\ (hostTimers # {}) <=> (pendingMutations # <<>>)
        /\ (debounceTimer # 0) <=> (hostTimers # {})
        /\ debounceTimer # 0 => hostTimers = {debounceTimer})
  /\ [][\A batch \in TimerBatches :
          (DomChange(batch) /\ pendingMutations' # pendingMutations /\ hostTimers # {}) =>
            /\ hostTimers' \cap hostTimers = {}
            /\ Cardinality(hostTimers') = 1]_vars
  /\ [][\A t \in hostTimers : TimerFires(t) => t = setTimeoutId(LastBurst)]_vars

\* two bursts are in the buffer and the only timer pending is the one of the second
C28_Witness ==
  /\ Len(pendingMutations) >= 2
  /\ pendingMutations[1].batch = 1
  /\ LastBurst = 2
  /\ hostTimers = {setTimeoutId(2)}

\* the selector of subscription c is valid CSS
WellFormed(c) == c.selector \notin MalformedSelectors

\* the buffered notifications that some well-formed live subscription matches
MatchedByWellFormed ==
  SelectSeq(pendingMutations,
            LAMBDA m : \E c \in LiveSubscriptions :
                         WellFormed(c) /\ (MatchesTarget(c, m) \/ MatchesInserted(c, m)))

\* C29: registerDomSelector with a malformed selector returns with the subscription
\* registered; and a flush while a malformed subscription is live completes, with
\* the buffer and the timer reset, and emits one record with exactly the buffered
\* notifications that a well-formed live subscription matches, or none when
\* there is no such notification.
C29_MalformedSelector ==
  /\ [][\A sel \in MalformedSelectors :
          \A mt \in {NoMutationTypes, [has |-> TRUE, types |-> {"childList"}]} :
            registerDomSelector(DomConfig("pluginA", sel, mt)) =>
              /\ DomConfig("pluginA", sel, mt) \in getAllRegisteredSelectors(domSelectors')
              /\ lastDomCall'.op = "register"]_vars
  /\ [][(Flush /\ \E c \in LiveSubscriptions : ~WellFormed(c)) =>
          /\ pendingMutations' = <<>>
          /\ hostTimers' = {}
          /\ IF MatchedByWellFormed = <<>>
               THEN NewRecords = <<>>
               ELSE /\ Len(NewRecords) = 1
                    /\ Flushed.mutations =
                         [i \in 1..Len(MatchedByWellFormed) |->
                            descriptor(MatchedByWellFormed[i])]]_vars

\* a malformed and a well-formed subscription are live, and a flush has emitted
\* the one insertion below div.gallery out of a buffer of two notifications
C29_Witness ==
  /\ LiveSubscriptions =
       {DomConfig("pluginA", "[[", NoMutationTypes),
        DomConfig("pluginA", "div.gallery", [has |-> TRUE, types |-> {"childList"}])}
  /\ domChanges = 1
  /\ Len(recs) = 1 /\ recs[1].kind = "dom_mutation"
  /\ recs[1].data.mutationCount = 1 /\ recs[1].data.mutations[1].type = "childList"
  /\ pendingMutations = <<>>

\* C30: while a pass is running the execution context holds the record of the
\* pass, a start time and the listener being called, and when no pass is running
\* -- the last one having run all its listeners, been short-circuited or seen a
\* listener throw -- the execution context is empty.
C30_ContextScoped ==
  /\ \A f \in Frames :
       InPass(f) => executionContext = [currentEvent |-> frames[f].rec, startTime |-> TRUE,
                                        currentListener |-> frames[f].cur.uid]
  /\ (\A f \in Frames : ~InPass(f)) => executionContext = NoContext

\* the registrations of kind k that carry id
Carrying(k, id) == {i \in 1..Len(listeners[k].arr) : listeners[k].arr[i].id = id}

\* the first of them in the list of kind k
FirstCarrying(k, id) == CHOOSE i \in Carrying(k, id) : \A j \in Carrying(k, id) : i <= j

\* C31: on() accepts a registration whose caller-supplied id another registration
\* of the kind carries already, and off(kind, id) removes exactly one of the
\* registrations that carry the id: the first in the list, which is one of highest
\* priority among them; the others stay, in their order.
C31_DuplicateIds ==
  /\ [][\A p \in {0, 1}, o \in BOOLEAN, id \in ExplicitIds :
          On("keydown", p, o, "pluginA", id) =>
            /\ Len(listeners'["keydown"].arr) = Len(listeners["keydown"].arr) + 1
            /\ \E i \in 1..Len(listeners'["keydown"].arr) :
                 /\ listeners'["keydown"].arr[i].uid = nextUid
                 /\ listeners'["keydown"].arr[i].id = id]_vars
  /\ [][\A id \in ExplicitIds :
          (Off("keydown", id) /\ Carrying("keydown", id) # {}) =>
            LET arr == listeners["keydown"].arr
                first == FirstCarrying("keydown", id)
            IN /\ listeners'["keydown"].arr =
                    [j \in 1..(Len(arr) - 1) |-> IF j < first THEN arr[j] ELSE arr[j + 1]]
               /\ \A j \in Carrying("keydown", id) :
                    arr[j].priority <= arr[first].priority]_vars

\* two registrations carried the id; off has removed the one of priority 1, which
\* was registered second, and the one of priority 0 is still registered
C31_Witness ==
  /\ nextUid = 3
  /\ Len(listeners["keydown"].arr) = 1
  /\ listeners["keydown"].arr[1].uid = 1
  /\ listeners["keydown"].arr[1].id \in ExplicitIds
  /\ listeners["keydown"].arr[1].priority = 0
  /\ fired = {}

\* C32: in one dispatch pass no listener is called twice, also when on() has
\* registered a listener of the kind, of any priority, while the pass was running.
C32_InvokedOncePerPass ==
  \A f \in Frames :
    \A i, j \in 1..Len(frames[f].log) : i # j => frames[f].log[i] # frames[f].log[j]

\* the listeners called in the pass of frame f so far
CalledIn(f) == {frames[f].log[n] : n \in 1..Len(frames[f].log)}

\* the step in which the pass of frame f returns without having been short-circuited
PassRunsOut(f) == PassEnds(f) /\ ~frames'[f].res /\ ~frames'[f].threw

\* C33: when a pass returns without having been short-circuited, every listener
\* of the kind that was registered before the pass began and is registered still
\* has been called in that pass -- also when off() removed a listener of the kind,
\* the one being called or another, while the pass was running.
C33_NoListenerSkipped ==
  [][\A f \in Frames :
       PassRunsOut(f) =>
         LET arr == listeners[KindOf(frames[f].rec)].arr IN
         \A i \in 1..Len(arr) : arr[i].uid < frames[f].since => arr[i].uid \in CalledIn(f)]_vars

\* the registrations that removeListenersBySource has taken out so far
RemovedUids == {x.uid : x \in removedBySource}

\* C34: once removeListenersBySource(X) has returned, no listener of source X that
\* it removed is called any more, also not by a pass that was running when it
\* was called.
C34_RemovedNotInvoked ==
  [][\A f \in Frames : CallsNext(f) => frames'[f].cur.uid \notin RemovedUids]_vars

\* C35: the step in which a pass returns, and with it the expiry of the once
\* listeners that the pass has called, leaves every listener registered that is
\* not a once listener and was registered before the pass began -- also when it
\* carries the same caller-supplied id as a once listener of the kind.
C35_ExpiryRemovesOnlyOnce ==
  [][\A f \in Frames :
       PassEnds(f) =>
         LET arr == listeners[KindOf(frames[f].rec)].arr IN
         \A i \in 1..Len(arr) :
           (~arr[i].once /\ arr[i].uid < frames[f].since) => RegisteredAfter(arr[i].uid)]_vars

\* C36: whenever isProcessing is false the eventQueue is empty, whoever called
\* emit and whenever, and whenever clear() was called.
C36_IdleQueueEmpty == ~isProcessing => eventQueue = <<>>

\* the dispatcher is idle after a listener's record was queued and dispatched and
\* another queued record was dropped by clear()
C36_Witness ==
  /\ ~isProcessing
  /\ \A f \in Frames : frames[f].pc = "idle"
  /\ \E r \in 1..Len(recs) : ~recs[r].direct /\ recs[r].st = "done" /\ recs[r].passes = 1
  /\ \E r \in 1..Len(recs) : recs[r].st = "queued"

\* C37: no kind is a key of the listeners Map with an empty array, after any
\* sequence of on, off, removeListenersBySource and once expiries.
C37_NoEmptyList == \A k \in EventTypes : listeners[k].has => Len(listeners[k].arr) > 0

\* C38: the selector cache holds one entry per live subscription and no other
\* entry, each with the configuration of its subscription, after any sequence of
\* registerDomSelector, unregisterDomSelector and clear calls, whatever characters
\* the plugin names and the selectors contain.
C38_CachePerSubscription ==
  /\ {e.config : e \in selectorCache} = LiveSubscriptions
  /\ Cardinality(selectorCache) = Cardinality(LiveSubscriptions)

\* C39: after a registerDomSelector call the observer is active and its
\* MutationObserver is connected, whether it had never been started, had been
\* stopped by stop() or had been stopped when the last subscription was removed.
C39_RegisterActivates ==
  /\ [](lastDomCall.op = "register" => domIsActive /\ observer.alive)
  /\ [][(lastDomCall'.op = "register" /\ lastDomCall' # lastDomCall) =>
          domIsActive' /\ observer'.alive]_vars

\* start() was never called; registerDomSelector has started the observer a
\* second time, after a stop that found a notification in the buffer
C39_Witness ==
  /\ lastDomCall.op = "register"
  /\ ~domStarted
  /\ dropped # {}
  /\ domIsActive /\ observer.alive

\* the buffered notifications that a subscription live now matches
MatchedNow ==
  SelectSeq(pendingMutations,
            LAMBDA m : \E c \in LiveSubscriptions : MatchesTarget(c, m) \/ MatchesInserted(c, m))

\* C40: a flush with subscriptions registered emits exactly the buffered
\* notifications that a subscription registered at the time of the flush matches,
\* whatever subscriptions were registered when the notifications arrived: a
\* subscription registered or removed while they waited decides like any other.
C40_FilterAtFlush ==
  [][(Flush /\ LiveSubscriptions # {}) =>
       IF MatchedNow = <<>>
         THEN NewRecords = <<>>
         ELSE /\ Len(NewRecords) = 1
              /\ Flushed.mutations =
                   [i \in 1..Len(MatchedNow) |-> descriptor(MatchedNow[i])]]_vars

\* the change of an attribute of #root arrived while only div.gallery was
\* subscribed; #root was subscribed after it, and the flush has emitted it
C40_Witness ==
  /\ domChanges = 1
  /\ lastDomCall.op = "register" /\ ~lastDomCall.found /\ lastDomCall.at = 1
  /\ lastDomCall.config.selector = "#root"
  /\ \E c \in LiveSubscriptions : c.selector = "div.gallery"
  /\ Len(recs) = 1 /\ recs[1].kind = "dom_mutation"
  /\ recs[1].data.mutations = <<descriptor(RootAttribute)>>

====
